---- MODULE Spec2Model ----
(***************************************************************************)
(* Model of the GitHub Enterprise MCP server: the call-tool dispatcher,    *)
(* the zod validation schemas, the error wrapping layers, the branch       *)
(* ensure helper and the multi-file commit sequence of push-files, run     *)
(* against a model of the remote repository (refs, commits, trees).        *)
(***************************************************************************)
EXTENDS Integers, Sequences, FiniteSets, TLC

(***************************************************************************)
(* Bounds of the model.                                                    *)
(***************************************************************************)
\* requests the client sends in one behaviour (each gets the next id)
MaxRequests == 2
\* remote failures injected in one behaviour
MaxFaults == 1
\* files in one push-files request
MaxFiles == 2

(***************************************************************************)
(* Error codes of McpError.                                                *)
(***************************************************************************)
MethodNotFound == -32601
InvalidParams == -32602
InternalError == -32603
ConfigurationError == -32000
Unauthorized == -32001
Forbidden == -32003
NotFound == -32004

(***************************************************************************)
(* Errors.  A thrown value is either an McpError (mcp = TRUE, with code    *)
(* and message) or any other error: an octokit RequestError carrying the   *)
(* HTTP status, a ZodError or a TypeError (status 0).  msg keeps the       *)
(* prefix of the message, which tells the layer that built the error.      *)
(***************************************************************************)
McpError(code, msg) == [mcp |-> TRUE, code |-> code, msg |-> msg, status |-> 0]

RequestError(status) == [mcp |-> FALSE, code |-> 0, msg |-> "RequestError", status |-> status]

ZodError == [mcp |-> FALSE, code |-> 0, msg |-> "ZodError", status |-> 0]

TypeError == [mcp |-> FALSE, code |-> 0, msg |-> "TypeError", status |-> 0]

\* the switch of handleApiError over the HTTP status
StatusToErrorCode(status) ==
  CASE status = 400 -> InvalidParams
    [] status = 401 -> Unauthorized
    [] status = 403 -> Forbidden
    [] status = 404 -> NotFound
    [] status = 422 -> InvalidParams
    [] OTHER -> InternalError

handleApiError(error) ==
  IF error.mcp THEN error
  ELSE McpError(StatusToErrorCode(IF error.status = 0 THEN 500 ELSE error.status),
                "GitHub API Error")

tryCatchAsync(error, errorMessage) ==
  IF error.mcp THEN error ELSE McpError(InternalError, errorMessage)

\* the catch block of the call-tool handler
DispatcherCatch(error) ==
  IF error.mcp THEN error ELSE McpError(InternalError, "Error executing tool")

\* what leaves the dispatcher for an error thrown inside a tool's tryCatchAsync
Thrown(error, errorMessage) == DispatcherCatch(tryCatchAsync(error, errorMessage))

(***************************************************************************)
(* Argument values.  A field of an argument bag holds one of these JSON    *)
(* values: absent, a non-empty string that is no member of any enumerated  *)
(* set ("s"), a non-empty string that is a member of the field's           *)
(* enumerated set ("e"), the empty string, the numbers 5, 0, 101 and 1.5,  *)
(* true, false, a non-empty array of well-formed elements, the empty       *)
(* array, an array with a malformed element, and an object of strings.     *)
(***************************************************************************)
Values == {"absent", "s", "e", "empty", "n5", "n0", "n101", "n1_5",
           "T", "F", "arr", "arr0", "arrbad", "obj"}

Strings == {"s", "e", "empty"}
Numbers == {"n5", "n0", "n101", "n1_5"}

\* mutant of EnumAccepts: an enumerated field declared as a plain string
EnumAsString(v) == v \in Strings

\* z.enum([...]): "e" stands for the members, every other value is outside
EnumAccepts(v) == v = "e"

\* does a zod type of the given kind accept the (present) value
Accepts(kind, v) ==
  CASE kind = "string"    -> v \in Strings
    [] kind = "string1"   -> v \in {"s", "e"}
    [] kind = "number"    -> v \in Numbers
    [] kind = "int"       -> v \in {"n5", "n0", "n101"}
    [] kind = "posint"    -> v \in {"n5", "n101"}
    [] kind = "min1"      -> v \in {"n5", "n101", "n1_5"}
    [] kind = "min1max100" -> v \in {"n5", "n1_5"}
    [] kind = "boolean"   -> v \in {"T", "F"}
    [] kind = "true"      -> v = "T"
    [] kind = "enum"      -> EnumAccepts(v)
    [] kind = "array"     -> v \in {"arr", "arr0"}
    [] kind = "array1"    -> v = "arr"
    [] kind = "strnum"    -> v \in Strings \cup Numbers
    [] kind = "record"    -> v = "obj"
    [] OTHER -> FALSE

\* a value of each kind that the schema accepts
ValidValue(kind) ==
  CASE kind \in {"string", "string1", "strnum"} -> "s"
    [] kind \in {"number", "int", "posint", "min1", "min1max100"} -> "n5"
    [] kind \in {"boolean", "true"} -> "T"
    [] kind = "enum" -> "e"
    [] kind \in {"array", "array1"} -> "arr"
    [] OTHER -> "obj"

(***************************************************************************)
(* Schemas: the fields of each zod object, with the kind of the field and  *)
(* whether it is required (not .optional()).                               *)
(***************************************************************************)
Field(name, kind, req) == [name |-> name, kind |-> kind, req |-> req]

OwnerRepoSchema == {Field("owner", "string1", TRUE), Field("repo", "string1", TRUE)}

CreateOrUpdateFileSchema == OwnerRepoSchema \cup
  {Field("path", "string1", TRUE), Field("content", "string1", TRUE),
   Field("message", "string1", TRUE), Field("branch", "string1", TRUE),
   Field("sha", "string", FALSE)}

PushFilesSchema == OwnerRepoSchema \cup
  {Field("branch", "string1", TRUE), Field("files", "array1", TRUE),
   Field("message", "string1", TRUE)}

GetFileContentsSchema == OwnerRepoSchema \cup
  {Field("path", "string1", TRUE), Field("branch", "string", FALSE)}

SearchRepositoriesSchema ==
  {Field("query", "string1", TRUE), Field("page", "number", FALSE),
   Field("perPage", "min1max100", FALSE)}

CreateRepositorySchema ==
  {Field("name", "string1", TRUE), Field("description", "string", FALSE),
   Field("private", "boolean", FALSE), Field("autoInit", "boolean", FALSE),
   Field("org", "string", FALSE)}

UpdateRepositorySchema == OwnerRepoSchema \cup
  {Field("description", "string", FALSE), Field("private", "boolean", FALSE),
   Field("default_branch", "string", FALSE), Field("has_issues", "boolean", FALSE),
   Field("has_projects", "boolean", FALSE), Field("has_wiki", "boolean", FALSE),
   Field("archived", "boolean", FALSE)}

\* mutant of DeleteRepositorySchema: confirm declared as a string or number
DeleteRepositoryLoose == OwnerRepoSchema \cup {Field("confirm", "strnum", TRUE)}

DeleteRepositorySchema == OwnerRepoSchema \cup {Field("confirm", "true", TRUE)}

CreateBranchSchema == OwnerRepoSchema \cup
  {Field("branch", "string1", TRUE), Field("from_branch", "string", FALSE)}

ListIssuesSchema == OwnerRepoSchema \cup
  {Field("state", "enum", FALSE), Field("labels", "array", FALSE),
   Field("sort", "enum", FALSE), Field("direction", "enum", FALSE),
   Field("since", "string", FALSE), Field("page", "number", FALSE),
   Field("per_page", "number", FALSE)}

GetIssueSchema == OwnerRepoSchema \cup {Field("issue_number", "posint", TRUE)}

CreateIssueSchema == OwnerRepoSchema \cup
  {Field("title", "string1", TRUE), Field("body", "string", FALSE),
   Field("assignees", "array", FALSE), Field("milestone", "number", FALSE),
   Field("labels", "array", FALSE)}

UpdateIssueSchema == OwnerRepoSchema \cup
  {Field("issue_number", "posint", TRUE), Field("title", "string", FALSE),
   Field("body", "string", FALSE), Field("assignees", "array", FALSE),
   Field("milestone", "number", FALSE), Field("labels", "array", FALSE),
   Field("state", "enum", FALSE)}

AddIssueCommentSchema == OwnerRepoSchema \cup
  {Field("issue_number", "posint", TRUE), Field("body", "string1", TRUE)}

ListPullRequestsSchema == OwnerRepoSchema \cup
  {Field("state", "enum", FALSE), Field("head", "string", FALSE),
   Field("base", "string", FALSE), Field("sort", "enum", FALSE),
   Field("direction", "enum", FALSE), Field("per_page", "number", FALSE),
   Field("page", "number", FALSE)}

GetPullRequestSchema == OwnerRepoSchema \cup {Field("pull_number", "posint", TRUE)}

GetPullRequestStatusSchema == OwnerRepoSchema \cup {Field("pull_number", "posint", TRUE)}

GetPullRequestCommentsSchema == OwnerRepoSchema \cup {Field("pull_number", "posint", TRUE)}

GetPullRequestReviewsSchema == OwnerRepoSchema \cup {Field("pull_number", "posint", TRUE)}

CreatePullRequestSchema == OwnerRepoSchema \cup
  {Field("title", "string1", TRUE), Field("head", "string1", TRUE),
   Field("base", "string1", TRUE), Field("body", "string", FALSE),
   Field("draft", "boolean", FALSE), Field("maintainer_can_modify", "boolean", FALSE)}

CreatePullRequestReviewSchema == OwnerRepoSchema \cup
  {Field("pull_number", "posint", TRUE), Field("body", "string1", TRUE),
   Field("event", "enum", TRUE), Field("commit_id", "string", FALSE),
   Field("comments", "array", FALSE)}

MergePullRequestSchema == OwnerRepoSchema \cup
  {Field("pull_number", "posint", TRUE), Field("commit_title", "string", FALSE),
   Field("commit_message", "string", FALSE), Field("merge_method", "enum", FALSE)}

UpdatePullRequestBranchSchema == OwnerRepoSchema \cup
  {Field("pull_number", "posint", TRUE), Field("expected_head_sha", "string", FALSE)}

SearchCodeSchema ==
  {Field("q", "string1", TRUE), Field("order", "enum", FALSE),
   Field("page", "min1", FALSE), Field("per_page", "min1max100", FALSE)}

SearchIssuesSchema ==
  {Field("q", "string1", TRUE), Field("sort", "enum", FALSE),
   Field("order", "enum", FALSE), Field("page", "min1", FALSE),
   Field("per_page", "min1max100", FALSE)}

SearchUsersSchema ==
  {Field("q", "string1", TRUE), Field("sort", "enum", FALSE),
   Field("order", "enum", FALSE), Field("page", "min1", FALSE),
   Field("per_page", "min1max100", FALSE)}

ListCommitsSchema == OwnerRepoSchema \cup
  {Field("sha", "string", FALSE), Field("page", "number", FALSE),
   Field("perPage", "number", FALSE)}

ListWorkflowsSchema == OwnerRepoSchema \cup
  {Field("page", "int", FALSE), Field("perPage", "int", FALSE)}

ListWorkflowRunsSchema == OwnerRepoSchema \cup
  {Field("workflow_id", "strnum", FALSE), Field("branch", "string", FALSE),
   Field("status", "enum", FALSE), Field("page", "int", FALSE),
   Field("perPage", "int", FALSE)}

TriggerWorkflowSchema == OwnerRepoSchema \cup
  {Field("workflow_id", "strnum", TRUE), Field("ref", "string1", TRUE),
   Field("inputs", "record", FALSE)}

\* the input schemas the tool list declares for the two tools of files.ts
\* that destructure their arguments without a zod schema
ForkRepositoryInput ==
  {Field("owner", "string", TRUE), Field("repo", "string", TRUE),
   Field("organization", "string", FALSE)}

GetPullRequestFilesInput ==
  {Field("owner", "string", TRUE), Field("repo", "string", TRUE),
   Field("pull_number", "number", TRUE)}

(***************************************************************************)
(* The tool catalog: the cases of the switch of the call-tool handler.     *)
(***************************************************************************)
Tools ==
  {"search-repositories", "create-repository", "update-repository",
   "delete-repository", "create-branch", "list-commits", "list-workflows",
   "list-workflow-runs", "trigger-workflow",
   "create-or-update-file", "push-files", "get-file-contents",
   "fork-repository", "get-pull-request-files",
   "list-issues", "get-issue", "create-issue", "update-issue", "add-issue-comment",
   "list-pull-requests", "get-pull-request", "create-pull-request",
   "create-pull-request-review", "merge-pull-request", "get-pull-request-status",
   "update-pull-request-branch", "get-pull-request-comments",
   "get-pull-request-reviews",
   "search-code", "search-issues", "search-users",
   "get-license-info", "get-enterprise-stats"}

\* a tool name that no case of the switch matches
UnknownTool == "no-such-tool"

\* the tool functions that begin with Schema.parse(args)
Validates(tool) ==
  tool \notin {"fork-repository", "get-pull-request-files",
               "get-license-info", "get-enterprise-stats"}

\* the fields of the tool's declared input schema; for the tools that parse
\* their arguments it is the zod schema the tool function parses with
InputSchema(tool) ==
  CASE tool = "search-repositories" -> SearchRepositoriesSchema
    [] tool = "create-repository" -> CreateRepositorySchema
    [] tool = "update-repository" -> UpdateRepositorySchema
    [] tool = "delete-repository" -> DeleteRepositorySchema
    [] tool = "create-branch" -> CreateBranchSchema
    [] tool = "list-commits" -> ListCommitsSchema
    [] tool = "list-workflows" -> ListWorkflowsSchema
    [] tool = "list-workflow-runs" -> ListWorkflowRunsSchema
    [] tool = "trigger-workflow" -> TriggerWorkflowSchema
    [] tool = "create-or-update-file" -> CreateOrUpdateFileSchema
    [] tool = "push-files" -> PushFilesSchema
    [] tool = "get-file-contents" -> GetFileContentsSchema
    [] tool = "fork-repository" -> ForkRepositoryInput
    [] tool = "get-pull-request-files" -> GetPullRequestFilesInput
    [] tool = "list-issues" -> ListIssuesSchema
    [] tool = "get-issue" -> GetIssueSchema
    [] tool = "create-issue" -> CreateIssueSchema
    [] tool = "update-issue" -> UpdateIssueSchema
    [] tool = "add-issue-comment" -> AddIssueCommentSchema
    [] tool = "list-pull-requests" -> ListPullRequestsSchema
    [] tool = "get-pull-request" -> GetPullRequestSchema
    [] tool = "create-pull-request" -> CreatePullRequestSchema
    [] tool = "create-pull-request-review" -> CreatePullRequestReviewSchema
    [] tool = "merge-pull-request" -> MergePullRequestSchema
    [] tool = "get-pull-request-status" -> GetPullRequestStatusSchema
    [] tool = "update-pull-request-branch" -> UpdatePullRequestBranchSchema
    [] tool = "get-pull-request-comments" -> GetPullRequestCommentsSchema
    [] tool = "get-pull-request-reviews" -> GetPullRequestReviewsSchema
    [] tool = "search-code" -> SearchCodeSchema
    [] tool = "search-issues" -> SearchIssuesSchema
    [] tool = "search-users" -> SearchUsersSchema
    [] OTHER -> {}

FieldNames(tool) == {f.name : f \in InputSchema(tool)}

\* Schema.parse: the bag must be an object, every required field present and
\* every present field of its kind; keys the schema does not declare are
\* stripped (z.object is not strict), so they do not fail the parse
SchemaParse(tool, form, bag) ==
  /\ form \in {"object", "text"}
  /\ \A f \in InputSchema(tool) :
       IF bag[f.name] = "absent" THEN ~f.req ELSE Accepts(f.kind, bag[f.name])

\* JavaScript truthiness of a field value (if (org), if (workflow_id), a || b)
Truthy(v) == v \notin {"absent", "empty", "n0", "F"}

\* the errorMessage the tool function passes to tryCatchAsync
ErrorMessage(tool) ==
  CASE tool = "push-files" -> "Failed to push files"
    [] tool = "create-or-update-file" -> "Failed to create or update file"
    [] tool = "create-branch" -> "Failed to create branch"
    [] tool = "get-enterprise-stats" -> "Failed to get enterprise stats"
    [] OTHER -> "Failed to"

\* the octokit calls of the tool functions that only call through
Verbs(tool, bag) ==
  CASE tool = "search-repositories" -> <<"search.repos">>
    [] tool = "create-repository" ->
         IF Truthy(bag["org"]) THEN <<"repos.createInOrg">>
         ELSE <<"repos.createForAuthenticatedUser">>
    [] tool = "update-repository" -> <<"repos.update">>
    [] tool = "delete-repository" -> <<"repos.delete">>
    [] tool = "list-commits" -> <<"repos.listCommits">>
    [] tool = "list-workflows" -> <<"actions.listRepoWorkflows">>
    [] tool = "list-workflow-runs" ->
         IF Truthy(bag["workflow_id"]) THEN <<"actions.listWorkflowRuns">>
         ELSE <<"actions.listWorkflowRunsForRepo">>
    [] tool = "trigger-workflow" -> <<"actions.createWorkflowDispatch">>
    [] tool = "get-file-contents" -> <<"repos.getContent">>
    [] tool = "fork-repository" -> <<"repos.createFork">>
    [] tool = "get-pull-request-files" -> <<"pulls.listFiles">>
    [] tool = "list-issues" -> <<"issues.listForRepo">>
    [] tool = "get-issue" -> <<"issues.get">>
    [] tool = "create-issue" -> <<"issues.create">>
    [] tool = "update-issue" -> <<"issues.update">>
    [] tool = "add-issue-comment" -> <<"issues.createComment">>
    [] tool = "list-pull-requests" -> <<"pulls.list">>
    [] tool = "get-pull-request" -> <<"pulls.get">>
    [] tool = "create-pull-request" -> <<"pulls.create">>
    [] tool = "create-pull-request-review" -> <<"pulls.createReview">>
    [] tool = "merge-pull-request" -> <<"pulls.merge">>
    [] tool = "get-pull-request-status" ->
         <<"pulls.get", "repos.getCombinedStatusForRef">>
    [] tool = "update-pull-request-branch" -> <<"pulls.updateBranch">>
    [] tool = "get-pull-request-comments" -> <<"pulls.listReviewComments">>
    [] tool = "get-pull-request-reviews" -> <<"pulls.listReviews">>
    [] tool = "search-code" -> <<"search.code">>
    [] tool = "search-issues" -> <<"search.issuesAndPullRequests">>
    [] tool = "search-users" -> <<"search.users">>
    [] tool = "get-license-info" -> <<"licenses.getAllCommonlyUsed">>
    [] OTHER -> << >>

(***************************************************************************)
(* The remote repository.  One repository exists ("widgets", default       *)
(* branch "main"); "ghost" names a repository that does not exist.         *)
(* Commits and trees are numbered in order of creation; 0 is no object.    *)

(***************************************************************************)
(* Text encoding.  A text is a JavaScript string: a sequence of UTF-16     *)
(* code units.  Buffer.from(s, 'utf-8') writes an unpaired surrogate as    *)
(* U+FFFD; Buffer.toString('utf-8') reads an invalid byte as U+FFFD.       *)
(***************************************************************************)
MaxChars == 2

\* tab, A, e-acute, euro sign, a high surrogate, a low surrogate, U+FFFD
CodeUnits == {9, 65, 233, 8364, 55357, 56832, 65533}

Texts == UNION {[1..n -> CodeUnits] : n \in 0..MaxChars}

IsHigh(u) == u >= 55296 /\ u <= 56319

IsLow(u) == u >= 56320 /\ u <= 57343

\* no unpaired surrogate
RECURSIVE WellFormed(_)
WellFormed(s) ==
  IF s = << >> THEN TRUE
  ELSE IF IsHigh(s[1])
  THEN Len(s) >= 2 /\ IsLow(s[2]) /\ WellFormed(SubSeq(s, 3, Len(s)))
  ELSE ~IsLow(s[1]) /\ WellFormed(Tail(s))

Utf8OfCodePoint(cp) ==
  IF cp < 128 THEN <<cp>>
  ELSE IF cp < 2048 THEN <<192 + (cp \div 64), 128 + (cp % 64)>>
  ELSE IF cp < 65536
  THEN <<224 + (cp \div 4096), 128 + ((cp \div 64) % 64), 128 + (cp % 64)>>
  ELSE <<240 + (cp \div 262144), 128 + ((cp \div 4096) % 64),
         128 + ((cp \div 64) % 64), 128 + (cp % 64)>>

\* Buffer.from(s, 'utf-8')
RECURSIVE Utf8Encode(_)
Utf8Encode(s) ==
  IF s = << >> THEN << >>
  ELSE IF IsHigh(s[1]) /\ Len(s) >= 2 /\ IsLow(s[2])
  THEN Utf8OfCodePoint(65536 + (s[1] - 55296) * 1024 + (s[2] - 56320))
         \o Utf8Encode(SubSeq(s, 3, Len(s)))
  ELSE IF IsHigh(s[1]) \/ IsLow(s[1])
  THEN <<239, 191, 189>> \o Utf8Encode(Tail(s))
  ELSE Utf8OfCodePoint(s[1]) \o Utf8Encode(Tail(s))

IsCont(b) == b >= 128 /\ b <= 191

\* the mutant of Utf8Encode: Buffer.from(s, 'latin1'), one byte per code unit
Latin1Encode(s) == [i \in 1..Len(s) |-> s[i] % 256]

\* buf.toString('utf-8'); an invalid byte is read as U+FFFD and skipped
RECURSIVE Utf8Decode(_)
Utf8Decode(b) ==
  IF b = << >> THEN << >>
  ELSE LET n == Len(b)
           c2 == 64 * (b[1] - 192) + (b[2] - 128)
           c3 == 4096 * (b[1] - 224) + 64 * (b[2] - 128) + (b[3] - 128)
           c4 == 262144 * (b[1] - 240) + 4096 * (b[2] - 128)
                   + 64 * (b[3] - 128) + (b[4] - 128)
       IN  IF b[1] < 128 THEN <<b[1]>> \o Utf8Decode(Tail(b))
           ELSE IF b[1] >= 194 /\ b[1] <= 223 /\ n >= 2 /\ IsCont(b[2])
           THEN <<c2>> \o Utf8Decode(SubSeq(b, 3, n))
           ELSE IF /\ b[1] >= 224 /\ b[1] <= 239 /\ n >= 3
                   /\ IsCont(b[2]) /\ IsCont(b[3])
                   /\ c3 >= 2048 /\ ~IsHigh(c3) /\ ~IsLow(c3)
           THEN <<c3>> \o Utf8Decode(SubSeq(b, 4, n))
           ELSE IF /\ b[1] >= 240 /\ b[1] <= 244 /\ n >= 4
                   /\ IsCont(b[2]) /\ IsCont(b[3]) /\ IsCont(b[4])
                   /\ c4 >= 65536 /\ c4 <= 1114111
           THEN <<55296 + ((c4 - 65536) \div 1024), 56320 + ((c4 - 65536) % 1024)>>
                  \o Utf8Decode(SubSeq(b, 5, n))
           ELSE <<65533>> \o Utf8Decode(Tail(b))

\* base64 text: the digits 0..63, Pad for '=', NewLine for a line break
Pad == 64

NewLine == 65

\* buf.toString('base64')
RECURSIVE Base64Encode(_)
Base64Encode(b) ==
  IF b = << >> THEN << >>
  ELSE IF Len(b) = 1
  THEN <<b[1] \div 4, (b[1] % 4) * 16, Pad, Pad>>
  ELSE IF Len(b) = 2
  THEN <<b[1] \div 4, (b[1] % 4) * 16 + (b[2] \div 16), (b[2] % 16) * 4, Pad>>
  ELSE <<b[1] \div 4, (b[1] % 4) * 16 + (b[2] \div 16),
         (b[2] % 16) * 4 + (b[3] \div 64), b[3] % 64>>
         \o Base64Encode(SubSeq(b, 4, Len(b)))

\* the digits of a base64 text up to its first pad, line breaks skipped
RECURSIVE Digits(_)
Digits(t) ==
  IF t = << >> \/ t[1] = Pad THEN << >>
  ELSE IF t[1] < 64 THEN <<t[1]>> \o Digits(Tail(t))
  ELSE Digits(Tail(t))

RECURSIVE BytesOfDigits(_)
BytesOfDigits(d) ==
  IF Len(d) < 2 THEN << >>
  ELSE IF Len(d) = 2 THEN <<d[1] * 4 + (d[2] \div 16)>>
  ELSE IF Len(d) = 3
  THEN <<d[1] * 4 + (d[2] \div 16), (d[2] % 16) * 16 + (d[3] \div 4)>>
  ELSE <<d[1] * 4 + (d[2] \div 16), (d[2] % 16) * 16 + (d[3] \div 4),
         (d[3] % 4) * 64 + d[4]>>
         \o BytesOfDigits(SubSeq(d, 5, Len(d)))

\* Buffer.from(t, 'base64')
Base64Decode(t) == BytesOfDigits(Digits(t))

\* mutant of utf8ToBase64: the text taken as latin1
latin1ToBase64(utf8) == Base64Encode(Latin1Encode(utf8))

utf8ToBase64(utf8) == Base64Encode(Utf8Encode(utf8))

base64ToUtf8(base64) == Utf8Decode(Base64Decode(base64))

(***************************************************************************)
Repos == {"widgets", "ghost"}
ExistingRepo == "widgets"
Branches == {"main", "feature"}
DefaultBranch == "main"
Paths == {"a.txt", "b.txt", "keep.txt"}
NoFile == <<-1>>

\* HTTP statuses a failing remote call may carry
FaultStatuses == {400, 401, 403, 404, 409, 422, 500}

VARIABLES
  h,          \* h[id]: the handler instance serving request id
  calls,      \* calls[id]: the remote calls request id has issued, in order
  refs,       \* remote: branch -> head commit (0: no such branch)
  commits,    \* remote: commit objects, [tree, parent]
  trees,      \* remote: tree objects, path -> content
  faults,     \* remote failures injected so far
  apiUrlSet,  \* whether GITHUB_API_URL is set in the environment
  proc        \* the server process: its state, whether the access token is
              \* set in the environment, the error that ended it (0: none)

vars == <<h, calls, refs, commits, trees, faults, apiUrlSet, proc>>

Ids == 1..MaxRequests

NoError == [mcp |-> FALSE, code |-> 0, msg |-> "", status |-> 0]

Process(state, tokenSet, error) ==
  [state |-> state, tokenSet |-> tokenSet, error |-> error.code, stdout |-> << >>]

\* mutant of validateEnvVariables: no variable is required
validateNothing(tokenSet) == NoError

\* validateEnvVariables(['GITHUB_PERSONAL_ACCESS_TOKEN'])
validateEnvVariables(tokenSet) ==
  IF tokenSet THEN NoError
  ELSE McpError(ConfigurationError, "Missing required environment variables")

\* main: the constructor validates the environment; on a throw main logs and
\* exits, else run() connects the transport
Main ==
  /\ proc.state = "starting"
  /\ LET error == validateEnvVariables(proc.tokenSet)
     IN  proc' = IF error = NoError
                 THEN Process("running", proc.tokenSet, NoError)
                 ELSE Process("exited", proc.tokenSet, error)
  /\ UNCHANGED <<h, calls, refs, commits, trees, faults, apiUrlSet>>

EmptyTree == [p \in Paths |-> NoFile]

TreeOf(t) == IF t = 0 THEN EmptyTree ELSE trees[t]

\* a is b or an ancestor of b
RECURSIVE IsAncestor(_, _)
IsAncestor(a, b) ==
  IF b = 0 THEN FALSE
  ELSE IF a = b THEN TRUE
  ELSE IsAncestor(a, commits[b].parent)

\* the tree a tree-create call yields: the base tree with each entry's path
\* replaced by the entry's content
Overlay(base, entries) ==
  [p \in Paths |->
     IF \E i \in 1..Len(entries) : entries[i].path = p
     THEN entries[CHOOSE i \in 1..Len(entries) :
                    /\ entries[i].path = p
                    /\ \A j \in 1..Len(entries) : entries[j].path = p => j <= i].content
     ELSE base[p]]

\* the blobs the remote stores: the UTF-8 bytes of a tree entry's content,
\* the bytes of the base64 text sent to the contents API
BlobsOfEntries(entries) ==
  [i \in 1..Len(entries) |->
     [path |-> entries[i].path, content |-> Utf8Encode(entries[i].content)]]

BlobOfBase64(path, base64) == [path |-> path, content |-> Base64Decode(base64)]

LineLength == 4

\* the contents API answers a blob in base64, broken into lines
RECURSIVE Lines(_)
Lines(t) ==
  IF Len(t) <= LineLength THEN t \o <<NewLine>>
  ELSE SubSeq(t, 1, LineLength) \o <<NewLine>> \o Lines(SubSeq(t, LineLength + 1, Len(t)))

RemoteContent(repo, branch, path) ==
  Lines(Base64Encode(TreeOf(commits[refs[branch]].tree)[path]))

\* what the remote answers, faults aside
RemoteGetRef(repo, branch) ==
  IF repo # ExistingRepo \/ refs[branch] = 0
  THEN [status |-> 404, sha |-> 0]
  ELSE [status |-> 200, sha |-> refs[branch]]

RemoteReposGet(repo) ==
  IF repo # ExistingRepo THEN [status |-> 404, sha |-> 0] ELSE [status |-> 200, sha |-> 0]

RemoteCreateRef(repo, branch, sha) ==
  IF repo # ExistingRepo THEN [status |-> 404, sha |-> 0]
  ELSE IF refs[branch] # 0 \/ sha = 0 THEN [status |-> 422, sha |-> 0]
  ELSE [status |-> 201, sha |-> sha]

RemoteGetCommit(repo, sha) ==
  IF repo # ExistingRepo \/ sha = 0 THEN [status |-> 404, sha |-> 0]
  ELSE [status |-> 200, sha |-> commits[sha].tree]

RemoteGetContent(repo, branch, path) ==
  IF repo # ExistingRepo \/ refs[branch] = 0 THEN [status |-> 404, sha |-> 0]
  ELSE IF TreeOf(commits[refs[branch]].tree)[path] = NoFile
       THEN [status |-> 404, sha |-> 0]
       ELSE [status |-> 200, sha |-> 0]

RemoteCreate(repo) ==
  IF repo # ExistingRepo THEN [status |-> 404, sha |-> 0] ELSE [status |-> 201, sha |-> 0]

\* a reference update that is not forced is accepted only as a fast-forward
RemoteUpdateRef(repo, branch, sha, force) ==
  IF repo # ExistingRepo THEN [status |-> 404, sha |-> 0]
  ELSE IF refs[branch] = 0 THEN [status |-> 422, sha |-> 0]
  ELSE IF ~force /\ ~IsAncestor(refs[branch], sha) THEN [status |-> 422, sha |-> 0]
  ELSE [status |-> 200, sha |-> sha]

\* the contents API: writing an existing path needs the blob sha
RemoteWriteFile(repo, branch, path, shaGiven) ==
  IF repo # ExistingRepo \/ refs[branch] = 0 THEN [status |-> 404, sha |-> 0]
  ELSE IF TreeOf(commits[refs[branch]].tree)[path] # NoFile /\ ~shaGiven
       THEN [status |-> 422, sha |-> 0]
       ELSE [status |-> 200, sha |-> 0]

Ok(out) == out.status \in {200, 201}

\* the outcomes of a remote call: the remote's answer, or an injected failure
Outcomes(answer) ==
  {answer} \cup
  (IF faults < MaxFaults
   THEN {[status |-> s, sha |-> 0] : s \in FaultStatuses}
   ELSE {})

CountFault(answer, out) ==
  faults' = IF out = answer THEN faults ELSE faults + 1

(***************************************************************************)
(* Requests, responses and handler instances.                              *)
(***************************************************************************)
\* success is the value of the result's success property: "true", "false", or
\* "absent" when the result has no such property
Null == <<-1>>

NoBody ==
  [kind |-> "none", success |-> "absent", branch |-> "", sha |-> 0, files |-> << >>,
   content |-> Null]

NoResponse == [shape |-> "none", code |-> 0, msg |-> "", body |-> NoBody]

\* the error branch of the transport: code = error.code || InternalError
ErrorResponse(error) ==
  [shape |-> "error",
   code |-> IF error.code = 0 THEN InternalError ELSE error.code,
   msg |-> error.msg, body |-> NoBody]

ResultResponse(body) == [shape |-> "result", code |-> 0, msg |-> "", body |-> body]

NoRequest ==
  [name |-> "", form |-> "absent", bag |-> << >>, extra |-> FALSE,
   repo |-> ExistingRepo, branch |-> DefaultBranch, from |-> DefaultBranch,
   files |-> << >>]

Idle ==
  [pc |-> "unsent", req |-> NoRequest, jsonParsed |-> FALSE, validated |-> FALSE,
   existed |-> "unset", defaultBranch |-> "", srcSha |-> 0,
   latestCommitSha |-> 0, baseTreeSha |-> 0, pending |-> {},
   newTreeSha |-> 0, newCommitSha |-> 0, k |-> 0, resp |-> NoResponse,
   overlap |-> FALSE, resolved |-> << >>, badJson |-> FALSE]

Call(verb, ref, sha, out) ==
  [verb |-> verb, ref |-> ref, sha |-> sha, base |-> 0, parent |-> 0,
   paths |-> << >>, force |-> FALSE, status |-> out.status, ret |-> out.sha]

PathsOf(files) == [i \in 1..Len(files) |-> files[i].path]

(***************************************************************************)
(* The call-tool handler up to the first await of the tool function.       *)
(***************************************************************************)
Finish(rec, resp) == [rec EXCEPT !.pc = "done", !.resp = resp]

\* where a tool function first awaits the remote
FirstPc(tool) ==
  CASE tool \in {"push-files", "create-or-update-file"} -> "branchExists"
    [] tool = "create-branch" -> "toolProbe"
    [] tool = "get-enterprise-stats" -> "stats"
    [] tool = "get-file-contents" -> "getFileContents"
    [] OTHER -> "call"

\* typeof args === 'string': the bag goes through safeJsonParse
IsText(form) == form \in {"text", "badtext"}

\* the request runs from the transport's data handler through the switch and
\* the tool function's synchronous start (Schema.parse, destructuring, guards)
\* mutant of safeJsonParse: the SyntaxError of JSON.parse, rethrown as it is
JsonParseRethrown == TypeError

\* what safeJsonParse throws on text that is no JSON
safeJsonParse == McpError(InvalidParams, "Invalid JSON")

Started(rec, r) ==
  LET tool == r.name
      got == [rec EXCEPT !.req = r, !.jsonParsed = IsText(r.form),
                         !.badJson = (r.form = "badtext")]
  IN  IF r.form = "badtext"
      THEN Finish(got, ErrorResponse(DispatcherCatch(safeJsonParse)))
      ELSE IF tool \notin Tools
      THEN Finish(got, ErrorResponse(DispatcherCatch(McpError(MethodNotFound, "Unknown tool"))))
      ELSE IF Validates(tool) /\ ~SchemaParse(tool, r.form, r.bag)
      THEN Finish(got, ErrorResponse(DispatcherCatch(ZodError)))
      ELSE IF tool \in {"fork-repository", "get-pull-request-files"} /\ r.form = "absent"
      THEN Finish(got, ErrorResponse(DispatcherCatch(TypeError)))
      ELSE IF tool = "delete-repository" /\ ~Truthy(r.bag["confirm"])
      THEN Finish(got, ErrorResponse(DispatcherCatch(
                  McpError(InvalidParams, "You must confirm deletion"))))
      ELSE IF ~proc.tokenSet
      THEN Finish(got, ErrorResponse(DispatcherCatch(
                  McpError(ConfigurationError, "token is required"))))
      ELSE IF tool = "get-enterprise-stats" /\ ~apiUrlSet
      THEN Finish(got, ResultResponse([NoBody EXCEPT !.kind = "enterprise-only"]))
      ELSE [got EXCEPT !.pc = FirstPc(tool), !.validated = Validates(tool), !.k = 1]

\* a handler between its first await and its response
InFlight(rec) == rec.pc \notin {"unsent", "done", "gone"}

\* overlap records (for the properties only) that the handler ran while
\* another handler was in flight
Receive(id, r) ==
  /\ proc.state = "running"
  /\ h[id].pc = "unsent"
  /\ IF id = 1 THEN TRUE ELSE h[id - 1].pc # "unsent"
  /\ h' = [j \in Ids |->
            IF j = id
            THEN [Started(h[id], r) EXCEPT
                    !.overlap = \E o \in Ids \ {id} : InFlight(h[o])]
            ELSE IF InFlight(h[j]) THEN [h[j] EXCEPT !.overlap = TRUE] ELSE h[j]]
  /\ UNCHANGED <<calls, refs, commits, trees, faults, apiUrlSet, proc>>

(***************************************************************************)
(* Branch ensure: github.branchExists, then github.createBranch.           *)
(***************************************************************************)
\* the step after the branch ensure of the two file-mutating tools
AfterEnsure(tool) == IF tool = "push-files" THEN "getRef" ELSE "writeFile"

\* mutants of BranchExistsResult: a probe that never answers true, and a
\* probe that takes 404 for a branch that exists
BranchExistsNeverTrue(status) ==
  IF status \in {200, 201, 404} THEN "false" ELSE "throw"

BranchExistsOn404(status) ==
  IF status \in {200, 201, 404} THEN "true" ELSE "throw"

\* mutant of BranchExistsResult: every failed lookup is taken for an absent
\* branch
BranchExistsFalseOnFailure(status) ==
  IF status \in {200, 201} THEN "true" ELSE "false"

\* branchExists: true when the lookup succeeds, false on 404, throws otherwise
BranchExistsResult(status) ==
  IF status \in {200, 201} THEN "true" ELSE IF status = 404 THEN "false" ELSE "throw"

Log(id, call) == calls' = [calls EXCEPT ![id] = Append(@, call)]

BranchExists(id) ==
  /\ h[id].pc = "branchExists"
  /\ LET r == h[id].req
         answer == RemoteGetRef(r.repo, r.branch)
     IN  \E out \in Outcomes(answer) :
           /\ CountFault(answer, out)
           /\ Log(id, Call("git.getRef", r.branch, 0, out))
           /\ h' = [h EXCEPT ![id] =
                 CASE BranchExistsResult(out.status) = "true" ->
                        [@ EXCEPT !.existed = "true", !.pc = AfterEnsure(r.name)]
                   [] BranchExistsResult(out.status) = "false" ->
                        [@ EXCEPT !.existed = "false", !.pc = "getDefaultBranch"]
                   [] OTHER ->
                        Finish(@, ErrorResponse(Thrown(
                          handleApiError(RequestError(out.status)), ErrorMessage(r.name))))]
  /\ UNCHANGED <<refs, commits, trees, apiUrlSet, proc>>

\* mutant of DefaultBranchResult: a failed repository read falls back to the
\* usual name of the default branch
DefaultBranchOrMain(status) == DefaultBranch

\* getDefaultBranch: the repository's default_branch, or the classified
\* error of a failed repository read
DefaultBranchResult(status) ==
  IF status \in {200, 201} THEN DefaultBranch ELSE "throw"

\* createBranch without fromBranch: getDefaultBranch reads the repository
GetDefaultBranch(id) ==
  /\ h[id].pc = "getDefaultBranch"
  /\ LET r == h[id].req
         answer == RemoteReposGet(r.repo)
     IN  \E out \in Outcomes(answer) :
           /\ CountFault(answer, out)
           /\ Log(id, Call("repos.get", "", 0, out))
           /\ h' = [h EXCEPT ![id] =
                 IF DefaultBranchResult(out.status) # "throw"
                 THEN [@ EXCEPT !.defaultBranch = DefaultBranchResult(out.status),
                                !.pc = "sourceRef"]
                 ELSE Finish(@, ErrorResponse(Thrown(
                        handleApiError(handleApiError(RequestError(out.status))),
                        ErrorMessage(r.name))))]
  /\ UNCHANGED <<refs, commits, trees, apiUrlSet, proc>>

\* createBranch: the head of the source branch
SourceRef(id) ==
  /\ h[id].pc = "sourceRef"
  /\ LET r == h[id].req
         answer == RemoteGetRef(r.repo, h[id].defaultBranch)
     IN  \E out \in Outcomes(answer) :
           /\ CountFault(answer, out)
           /\ Log(id, Call("git.getRef", h[id].defaultBranch, 0, out))
           /\ h' = [h EXCEPT ![id] =
                 IF Ok(out)
                 THEN [@ EXCEPT !.srcSha = out.sha, !.pc = "createRef"]
                 ELSE Finish(@, ErrorResponse(Thrown(
                        handleApiError(RequestError(out.status)), ErrorMessage(r.name))))]
  /\ UNCHANGED <<refs, commits, trees, apiUrlSet, proc>>

\* mutant of CreateRefResult: a rejected create-ref (the reference exists
\* already) is taken for a created branch
CreateRefTolerant(status) ==
  IF status \in {200, 201, 422} THEN "created" ELSE "throw"

\* createBranch: the reference is created, or the failure of git.createRef
\* is thrown as a classified error
CreateRefResult(status) ==
  IF status \in {200, 201} THEN "created" ELSE "throw"

\* createBranch: the new reference
CreateRef(id) ==
  /\ h[id].pc = "createRef"
  /\ LET r == h[id].req
         answer == RemoteCreateRef(r.repo, r.branch, h[id].srcSha)
     IN  \E out \in Outcomes(answer) :
           /\ CountFault(answer, out)
           /\ Log(id, Call("git.createRef", r.branch, h[id].srcSha, out))
           /\ refs' = IF Ok(out) THEN [refs EXCEPT ![r.branch] = h[id].srcSha] ELSE refs
           /\ h' = [h EXCEPT ![id] =
                 IF CreateRefResult(out.status) = "created"
                 THEN [@ EXCEPT !.pc = AfterEnsure(r.name)]
                 ELSE Finish(@, ErrorResponse(Thrown(
                        handleApiError(RequestError(out.status)), ErrorMessage(r.name))))]
  /\ UNCHANGED <<commits, trees, apiUrlSet, proc>>

(***************************************************************************)
(* pushFiles after the branch ensure.  These calls go to octokit directly, *)
(* so a failure is a RequestError that only tryCatchAsync sees.            *)
(***************************************************************************)
\* mutant of UpdateRefForce: a forced update
UpdateRefForced == TRUE

\* the force parameter of the git.updateRef call (the call passes none)
UpdateRefForce == FALSE

\* mutant of BaseTree: a tree-create without base_tree
NoBaseTree(baseTreeSha) == 0

\* base_tree of the git.createTree call
BaseTree(baseTreeSha) == baseTreeSha

\* mutant of CommitParent: a commit without parents
NoParent(latestCommitSha) == 0

\* parents of the git.createCommit call
CommitParent(latestCommitSha) == latestCommitSha

\* mutant of TreeEntries: the last input file is left out
TreeEntriesButLast(files) ==
  [i \in 1..(Len(files) - 1) |-> [path |-> files[i].path, content |-> files[i].content]]

\* the tree entries: one whole-content blob entry per input file, in order
TreeEntries(files) ==
  [i \in 1..Len(files) |-> [path |-> files[i].path, content |-> files[i].content]]

\* the result pushFiles returns
PushFilesResult(branch, newCommitSha, files) ==
  [kind |-> "push-files", success |-> "true", branch |-> branch,
   sha |-> newCommitSha, files |-> PathsOf(files), content |-> Null]

\* mutant of PushFailed: the failure is caught and the run goes on to its
\* next call (the ref-update, the last call, still ends the run)
PushContinues(rec, status) ==
  IF rec.pc = "updateRef"
  THEN Finish(rec, ErrorResponse(Thrown(RequestError(status), ErrorMessage("push-files"))))
  ELSE [rec EXCEPT !.pc = CASE rec.pc = "getRef" -> "getCommit"
                            [] rec.pc = "getCommit" -> "createTree"
                            [] rec.pc = "getContent" -> "createTree"
                            [] rec.pc = "createTree" -> "createCommit"
                            [] OTHER -> "updateRef"]

PushFailed(rec, status) ==
  Finish(rec, ErrorResponse(Thrown(RequestError(status), ErrorMessage("push-files"))))

\* the latest commit on the branch
GetRef(id) ==
  /\ h[id].pc = "getRef"
  /\ LET r == h[id].req
         answer == RemoteGetRef(r.repo, r.branch)
     IN  \E out \in Outcomes(answer) :
           /\ CountFault(answer, out)
           /\ Log(id, Call("git.getRef", r.branch, 0, out))
           /\ h' = [h EXCEPT ![id] =
                 IF Ok(out)
                 THEN [@ EXCEPT !.latestCommitSha = out.sha, !.pc = "getCommit"]
                 ELSE PushFailed(@, out.status)]
  /\ UNCHANGED <<refs, commits, trees, apiUrlSet, proc>>

\* the commit's tree; on return files.map starts one getContent per file, in
\* input order, each running up to its await
GetCommit(id) ==
  /\ h[id].pc = "getCommit"
  /\ LET r == h[id].req
         answer == RemoteGetCommit(r.repo, h[id].latestCommitSha)
         lookups == [i \in 1..Len(r.files) |->
                       [Call("repos.getContent", r.branch, 0, [status |-> 0, sha |-> 0])
                          EXCEPT !.paths = <<r.files[i].path>>]]
     IN  \E out \in Outcomes(answer) :
           /\ CountFault(answer, out)
           /\ calls' = [calls EXCEPT ![id] =
                 Append(@, Call("git.getCommit", "", h[id].latestCommitSha, out))
                   \o (IF Ok(out) THEN lookups ELSE << >>)]
           /\ h' = [h EXCEPT ![id] =
                 IF Ok(out)
                 THEN [@ EXCEPT !.baseTreeSha = out.sha, !.pending = 1..Len(r.files),
                                !.pc = "getContent"]
                 ELSE PushFailed(@, out.status)]
  /\ UNCHANGED <<refs, commits, trees, apiUrlSet, proc>>

\* mutant of ResolvedTree: the entries in the order the lookups completed
TreeInCompletionOrder(files, resolved) ==
  [k \in 1..Len(resolved) |-> TreeEntries(files)[resolved[k]]]

\* the value of Promise.all: the entry of each input file at the position of
\* the file, whatever the order (resolved) in which the callbacks completed
ResolvedTree(files, resolved) == TreeEntries(files)

\* one of the pending getContent lookups returns; 404 is caught in the
\* callback, any other failure rejects Promise.all
GetContent(id, i) ==
  /\ h[id].pc = "getContent"
  /\ i \in h[id].pending
  /\ LET r == h[id].req
         answer == RemoteGetContent(r.repo, r.branch, r.files[i].path)
     IN  \E out \in Outcomes(answer) :
           /\ CountFault(answer, out)
           /\ h' = [h EXCEPT ![id] =
                 IF Ok(out) \/ out.status = 404
                 THEN [@ EXCEPT !.pending = @ \ {i}, !.resolved = Append(@, i),
                                !.pc = IF h[id].pending = {i} THEN "createTree" ELSE @]
                 ELSE PushFailed([@ EXCEPT !.pending = {}], out.status)]
           /\ calls' = [calls EXCEPT ![id] =
                 [@ EXCEPT ![Len(@) - Len(r.files) + i] =
                    [@ EXCEPT !.status = out.status]]]
  /\ UNCHANGED <<refs, commits, trees, apiUrlSet, proc>>

CreateTree(id) ==
  /\ h[id].pc = "createTree"
  /\ LET r == h[id].req
         base == BaseTree(h[id].baseTreeSha)
         answer == RemoteCreate(r.repo)
     IN  \E out \in Outcomes(answer) :
           /\ CountFault(answer, out)
           /\ trees' = IF Ok(out)
                       THEN Append(trees, Overlay(TreeOf(base),
                              BlobsOfEntries(ResolvedTree(r.files, h[id].resolved))))
                       ELSE trees
           /\ Log(id, [Call("git.createTree", "", 0,
                            [status |-> out.status,
                             sha |-> IF Ok(out) THEN Len(trees) + 1 ELSE 0])
                         EXCEPT !.base = base,
                                !.paths = PathsOf(ResolvedTree(r.files, h[id].resolved))])
           /\ h' = [h EXCEPT ![id] =
                 IF Ok(out)
                 THEN [@ EXCEPT !.newTreeSha = Len(trees) + 1, !.pc = "createCommit"]
                 ELSE PushFailed(@, out.status)]
  /\ UNCHANGED <<refs, commits, apiUrlSet, proc>>

CreateCommit(id) ==
  /\ h[id].pc = "createCommit"
  /\ LET r == h[id].req
         parent == CommitParent(h[id].latestCommitSha)
         answer == RemoteCreate(r.repo)
     IN  \E out \in Outcomes(answer) :
           /\ CountFault(answer, out)
           /\ commits' = IF Ok(out)
                         THEN Append(commits, [tree |-> h[id].newTreeSha, parent |-> parent])
                         ELSE commits
           /\ Log(id, [Call("git.createCommit", "", h[id].newTreeSha,
                            [status |-> out.status,
                             sha |-> IF Ok(out) THEN Len(commits) + 1 ELSE 0])
                         EXCEPT !.parent = parent])
           /\ h' = [h EXCEPT ![id] =
                 IF Ok(out)
                 THEN [@ EXCEPT !.newCommitSha = Len(commits) + 1, !.pc = "updateRef"]
                 ELSE PushFailed(@, out.status)]
  /\ UNCHANGED <<refs, trees, apiUrlSet, proc>>

UpdateRef(id) ==
  /\ h[id].pc = "updateRef"
  /\ LET r == h[id].req
         answer == RemoteUpdateRef(r.repo, r.branch, h[id].newCommitSha, UpdateRefForce)
     IN  \E out \in Outcomes(answer) :
           /\ CountFault(answer, out)
           /\ refs' = IF Ok(out) THEN [refs EXCEPT ![r.branch] = h[id].newCommitSha] ELSE refs
           /\ Log(id, [Call("git.updateRef", r.branch, h[id].newCommitSha, out)
                         EXCEPT !.force = UpdateRefForce])
           /\ h' = [h EXCEPT ![id] =
                 IF Ok(out)
                 THEN Finish(@, ResultResponse(
                        PushFilesResult(r.branch, h[id].newCommitSha, r.files)))
                 ELSE PushFailed(@, out.status)]
  /\ UNCHANGED <<commits, trees, apiUrlSet, proc>>

(***************************************************************************)
(* createOrUpdateFile after the branch ensure: one contents-API write, on  *)
(* which the remote makes the commit and moves the branch.                 *)
(***************************************************************************)
WriteFile(id) ==
  /\ h[id].pc = "writeFile"
  /\ LET r == h[id].req
         file == r.files[1]
         answer == RemoteWriteFile(r.repo, r.branch, file.path, r.bag["sha"] # "absent")
     IN  \E out \in Outcomes(answer) :
           /\ CountFault(answer, out)
           /\ trees' = IF Ok(out)
                       THEN Append(trees, Overlay(TreeOf(commits[refs[r.branch]].tree),
                                 <<BlobOfBase64(file.path, utf8ToBase64(file.content))>>))
                       ELSE trees
           /\ commits' = IF Ok(out)
                         THEN Append(commits, [tree |-> Len(trees) + 1, parent |-> refs[r.branch]])
                         ELSE commits
           /\ refs' = IF Ok(out) THEN [refs EXCEPT ![r.branch] = Len(commits) + 1] ELSE refs
           /\ Log(id, [Call("repos.createOrUpdateFileContents", r.branch, 0,
                            [status |-> out.status,
                             sha |-> IF Ok(out) THEN Len(commits) + 1 ELSE 0])
                         EXCEPT !.paths = <<file.path>>])
           /\ h' = [h EXCEPT ![id] =
                 IF Ok(out)
                 THEN Finish(@, ResultResponse(
                        [kind |-> "create-or-update-file", success |-> "absent",
                         branch |-> r.branch, sha |-> Len(commits) + 1,
                         files |-> <<file.path>>, content |-> Null]))
                 ELSE Finish(@, ErrorResponse(Thrown(RequestError(out.status),
                                                     ErrorMessage(r.name))))]
  /\ UNCHANGED <<apiUrlSet, proc>>

(***************************************************************************)
(* The create-branch tool: its own existence probe, then the source head   *)
(* and the new reference, through octokit directly; only getDefaultBranch  *)
(* goes through the adapter.                                               *)

(***************************************************************************)
(* getFileContents: one contents-API read; the content of a file comes in  *)
(* base64 and is decoded, an empty content is answered as null.            *)
(***************************************************************************)
GetFileContents(id) ==
  /\ h[id].pc = "getFileContents"
  /\ LET r == h[id].req
         path == r.files[1].path
         answer == RemoteGetContent(r.repo, r.branch, path)
     IN  \E out \in Outcomes(answer) :
           /\ CountFault(answer, out)
           /\ Log(id, [Call("repos.getContent", r.branch, 0, out) EXCEPT !.paths = <<path>>])
           /\ h' = [h EXCEPT ![id] =
                 IF Ok(out)
                 THEN LET content == RemoteContent(r.repo, r.branch, path)
                      IN  Finish(@, ResultResponse(
                            [NoBody EXCEPT
                               !.kind = "file", !.files = <<path>>,
                               !.content = IF content # << >>
                                           THEN base64ToUtf8(content) ELSE Null]))
                 ELSE Finish(@, ErrorResponse(Thrown(RequestError(out.status),
                                                     ErrorMessage(r.name))))]
  /\ UNCHANGED <<refs, commits, trees, apiUrlSet, proc>>

(***************************************************************************)
ToolFailed(rec, error) ==
  Finish(rec, ErrorResponse(Thrown(error, ErrorMessage(rec.req.name))))

ToolProbe(id) ==
  /\ h[id].pc = "toolProbe"
  /\ LET r == h[id].req
         answer == RemoteGetRef(r.repo, r.branch)
     IN  \E out \in Outcomes(answer) :
           /\ CountFault(answer, out)
           /\ Log(id, Call("git.getRef", r.branch, 0, out))
           /\ h' = [h EXCEPT ![id] =
                 IF Ok(out)
                 THEN Finish(@, ResultResponse(
                        [NoBody EXCEPT !.kind = "branch-exists", !.success = "false",
                                       !.branch = r.branch]))
                 ELSE IF out.status = 404
                 THEN IF Truthy(r.bag["from_branch"])
                      THEN [@ EXCEPT !.existed = "false", !.defaultBranch = r.from,
                                     !.pc = "toolSourceRef"]
                      ELSE [@ EXCEPT !.existed = "false", !.pc = "toolGetDefault"]
                 ELSE ToolFailed(@, RequestError(out.status))]
  /\ UNCHANGED <<refs, commits, trees, apiUrlSet, proc>>

ToolGetDefault(id) ==
  /\ h[id].pc = "toolGetDefault"
  /\ LET r == h[id].req
         answer == RemoteReposGet(r.repo)
     IN  \E out \in Outcomes(answer) :
           /\ CountFault(answer, out)
           /\ Log(id, Call("repos.get", "", 0, out))
           /\ h' = [h EXCEPT ![id] =
                 IF Ok(out)
                 THEN [@ EXCEPT !.defaultBranch = DefaultBranch, !.pc = "toolSourceRef"]
                 ELSE ToolFailed(@, handleApiError(RequestError(out.status)))]
  /\ UNCHANGED <<refs, commits, trees, apiUrlSet, proc>>

ToolSourceRef(id) ==
  /\ h[id].pc = "toolSourceRef"
  /\ LET r == h[id].req
         answer == RemoteGetRef(r.repo, h[id].defaultBranch)
     IN  \E out \in Outcomes(answer) :
           /\ CountFault(answer, out)
           /\ Log(id, Call("git.getRef", h[id].defaultBranch, 0, out))
           /\ h' = [h EXCEPT ![id] =
                 IF Ok(out)
                 THEN [@ EXCEPT !.srcSha = out.sha, !.pc = "toolCreateRef"]
                 ELSE ToolFailed(@, RequestError(out.status))]
  /\ UNCHANGED <<refs, commits, trees, apiUrlSet, proc>>

ToolCreateRef(id) ==
  /\ h[id].pc = "toolCreateRef"
  /\ LET r == h[id].req
         answer == RemoteCreateRef(r.repo, r.branch, h[id].srcSha)
     IN  \E out \in Outcomes(answer) :
           /\ CountFault(answer, out)
           /\ Log(id, Call("git.createRef", r.branch, h[id].srcSha, out))
           /\ refs' = IF Ok(out) THEN [refs EXCEPT ![r.branch] = h[id].srcSha] ELSE refs
           /\ h' = [h EXCEPT ![id] =
                 IF Ok(out)
                 THEN Finish(@, ResultResponse(
                        [NoBody EXCEPT !.kind = "branch-created", !.success = "true",
                                       !.branch = r.branch, !.sha = h[id].srcSha]))
                 ELSE ToolFailed(@, RequestError(out.status))]
  /\ UNCHANGED <<commits, trees, apiUrlSet, proc>>

(***************************************************************************)
(* The tools that call through: the octokit calls of Verbs, one after the  *)
(* other, then the reshaped data.  What these calls do on the remote is    *)
(* outside the model; each returns or fails.                               *)
(***************************************************************************)
RemoteAnswer == [status |-> 200, sha |-> 0]

CallThrough(id) ==
  /\ h[id].pc = "call"
  /\ LET r == h[id].req
         verbs == Verbs(r.name, r.bag)
     IN  \E out \in Outcomes(RemoteAnswer) :
           /\ CountFault(RemoteAnswer, out)
           /\ Log(id, Call(verbs[h[id].k], "", 0, out))
           /\ h' = [h EXCEPT ![id] =
                 IF ~Ok(out) THEN ToolFailed(@, RequestError(out.status))
                 ELSE IF h[id].k < Len(verbs) THEN [@ EXCEPT !.k = @ + 1]
                 ELSE Finish(@, ResultResponse(
                        [NoBody EXCEPT !.kind = "data",
                           !.success = IF r.name = "delete-repository"
                                       THEN "true" ELSE "absent"]))]
  /\ UNCHANGED <<refs, commits, trees, apiUrlSet, proc>>

\* getEnterpriseStats: the inner catch turns every failure into a result
EnterpriseStats(id) ==
  /\ h[id].pc = "stats"
  /\ \E out \in Outcomes(RemoteAnswer) :
       /\ CountFault(RemoteAnswer, out)
       /\ Log(id, Call("GET /enterprise/stats/all", "", 0, out))
       /\ h' = [h EXCEPT ![id] =
             IF Ok(out)
             THEN Finish(@, ResultResponse([NoBody EXCEPT !.kind = "data"]))
             ELSE Finish(@, ResultResponse([NoBody EXCEPT !.kind = "stats-unavailable"]))]
  /\ UNCHANGED <<refs, commits, trees, apiUrlSet, proc>>

(***************************************************************************)
(* The requests a client sends.                                            *)
(***************************************************************************)
FieldOf(tool, n) == CHOOSE f \in InputSchema(tool) : f.name = n

\* a bag the tool's schema accepts: required fields only
ValidBag(tool) ==
  [n \in FieldNames(tool) |->
     IF FieldOf(tool, n).req THEN ValidValue(FieldOf(tool, n).kind) ELSE "absent"]

\* the valid bag and every bag that differs from it in one field
Bags(tool) ==
  {ValidBag(tool)} \cup
  {[ValidBag(tool) EXCEPT ![n] = v] : n \in FieldNames(tool), v \in Values}

InputFile(path, content) == [path |-> path, content |-> content]

InputFiles == {InputFile("a.txt", <<65>>), InputFile("b.txt", <<233>>)}

\* the file lists of a request: up to MaxFiles files, no path twice
FileLists ==
  UNION {{fs \in [1..n -> InputFiles] :
            \A i, j \in 1..n : i # j => fs[i].path # fs[j].path} : n \in 1..MaxFiles}

Request(name, form, bag, extra, repo, branch, files) ==
  [name |-> name, form |-> form, bag |-> bag, extra |-> extra,
   repo |-> repo, branch |-> branch, from |-> DefaultBranch, files |-> files]

\* well-formed requests of the two file-mutating tools
FileRequests ==
  {Request("push-files", "object", ValidBag("push-files"), FALSE, ExistingRepo, b, fs) :
     b \in Branches, fs \in FileLists}
  \cup
  {Request("create-or-update-file", "object", bag, FALSE, ExistingRepo, b, fs) :
     b \in Branches, fs \in {f \in FileLists : Len(f) = 1},
     bag \in {ValidBag("create-or-update-file"),
              [ValidBag("create-or-update-file") EXCEPT !["sha"] = "s"]}}
  \cup
  {Request(t, "object", ValidBag(t), FALSE, "ghost", DefaultBranch,
           <<InputFile("a.txt", <<65>>)>>) : t \in {"push-files", "create-or-update-file"}}

\* requests over the whole catalog: structured or serialized bags within one
\* field of a valid bag; valid bags with an undeclared extra key; bags that
\* are absent or are text that is no JSON; and a tool name not in the catalog
SampleFiles == <<InputFile("a.txt", <<65>>), InputFile("b.txt", <<233>>)>>

CatalogRequests ==
  UNION {{Request(t, form, bag, FALSE, ExistingRepo, "feature", SampleFiles) :
            form \in {"object", "text"}, bag \in Bags(t)} :
         t \in Tools}
  \cup
  {Request(t, form, ValidBag(t), TRUE, ExistingRepo, "feature", SampleFiles) :
     t \in Tools, form \in {"object", "text"}}
  \cup
  {Request(t, form, << >>, FALSE, ExistingRepo, "feature", SampleFiles) :
     t \in Tools \cup {UnknownTool}, form \in {"badtext", "absent"}}
  \cup
  {Request(UnknownTool, form, << >>, extra, ExistingRepo, "feature", SampleFiles) :
     form \in {"object", "text"}, extra \in BOOLEAN}

(***************************************************************************)
(* Specifications.                                                         *)
(***************************************************************************)
InitRemote ==
  /\ refs = [b \in Branches |-> IF b = DefaultBranch THEN 1 ELSE 0]
  /\ commits = <<[tree |-> 1, parent |-> 0]>>
  /\ trees = <<[p \in Paths |-> CASE p = "a.txt" -> <<111>> [] p = "keep.txt" -> <<107>>
                                  [] OTHER -> NoFile]>>
  /\ faults = 0

Init ==
  /\ h = [id \in Ids |-> Idle]
  /\ calls = [id \in Ids |-> << >>]
  /\ InitRemote
  /\ apiUrlSet = TRUE
  /\ proc = Process("running", TRUE, NoError)

InitCatalog ==
  /\ h = [id \in Ids |-> Idle]
  /\ calls = [id \in Ids |-> << >>]
  /\ InitRemote
  /\ apiUrlSet \in BOOLEAN
  /\ \E tokenSet \in BOOLEAN : proc = Process("starting", tokenSet, NoError)

FileSteps(id) ==
  \/ BranchExists(id)
  \/ GetDefaultBranch(id)
  \/ SourceRef(id)
  \/ CreateRef(id)
  \/ GetRef(id)
  \/ GetCommit(id)
  \/ \E i \in 1..MaxFiles : GetContent(id, i)
  \/ CreateTree(id)
  \/ CreateCommit(id)
  \/ UpdateRef(id)
  \/ WriteFile(id)

\* a client that pipelines file-mutating requests: handlers interleave at
\* their awaits
Next ==
  \E id \in Ids :
    \/ \E r \in FileRequests : Receive(id, r)
    \/ FileSteps(id)

Spec == Init /\ [][Next]_vars

\* the client takes the response; nothing of the request stays in the server
\* (badJson is kept for the properties only)
Collect(id) ==
  /\ h[id].pc = "done"
  /\ h' = [h EXCEPT ![id] = [Idle EXCEPT !.pc = "gone", !.badJson = h[id].badJson]]
  /\ calls' = [calls EXCEPT ![id] = << >>]
  /\ UNCHANGED <<refs, commits, trees, faults, apiUrlSet, proc>>

\* a client that sends any request of the catalog and takes each response
\* before it sends the next
NextCatalog ==
  \/ Main
  \/ \E id \in Ids :
       \/ /\ \A other \in Ids : h[other].pc \in {"unsent", "gone"}
          /\ \E r \in CatalogRequests : Receive(id, r)
       \/ Collect(id)
       \/ FileSteps(id)
       \/ ToolProbe(id)
       \/ ToolGetDefault(id)
       \/ ToolSourceRef(id)
       \/ ToolCreateRef(id)
       \/ CallThrough(id)
       \/ EnterpriseStats(id)
       \/ GetFileContents(id)

SpecCatalog == InitCatalog /\ [][NextCatalog]_vars

\* a client that writes a text to a file of the default branch and, once
\* answered, reads the file back; the remote fails no call
RoundTripWrites ==
  {Request("create-or-update-file", "object",
           [ValidBag("create-or-update-file") EXCEPT !["sha"] = "s"], FALSE,
           ExistingRepo, DefaultBranch, <<InputFile(p, s)>>) :
     p \in {"a.txt", "b.txt"}, s \in Texts \ {<< >>}}

RoundTripReads ==
  {Request("get-file-contents", "object", ValidBag("get-file-contents"), FALSE,
           ExistingRepo, DefaultBranch, <<InputFile(p, << >>)>>) :
     p \in {"a.txt", "b.txt"}}

InitRoundTrip ==
  /\ h = [id \in Ids |-> Idle]
  /\ calls = [id \in Ids |-> << >>]
  /\ refs = [b \in Branches |-> IF b = DefaultBranch THEN 1 ELSE 0]
  /\ commits = <<[tree |-> 1, parent |-> 0]>>
  /\ trees = <<[p \in Paths |-> IF p = "a.txt" THEN <<111>> ELSE NoFile]>>
  /\ faults = MaxFaults
  /\ apiUrlSet = TRUE
  /\ proc = Process("running", TRUE, NoError)

NextRoundTrip ==
  \/ \E r \in RoundTripWrites : Receive(1, r)
  \/ BranchExists(1)
  \/ WriteFile(1)
  \/ /\ h[1].pc = "done"
     /\ \E r \in RoundTripReads : Receive(2, r)
  \/ GetFileContents(2)

SpecRoundTrip == InitRoundTrip /\ [][NextRoundTrip]_vars

(***************************************************************************)
(* Properties.                                                             *)
(***************************************************************************)
Done(id) == h[id].pc = "done"

Failed(id) == Done(id) /\ h[id].resp.shape = "error"

Succeeded(id) == Done(id) /\ h[id].resp.shape = "result"

IsBag(r) == r.name \in Tools /\ r.form \in {"object", "text"}

MissingRequired(r) ==
  /\ IsBag(r)
  /\ \E f \in InputSchema(r.name) : f.req /\ r.bag[f.name] = "absent"

ViolatesSchema(r) ==
  /\ IsBag(r)
  /\ \E f \in InputSchema(r.name) :
       IF r.bag[f.name] = "absent" THEN f.req ELSE ~Accepts(f.kind, r.bag[f.name])

CallsOf(id, verb) == {i \in 1..Len(calls[id]) : calls[id][i].verb = verb}

Count(id, verb) == Cardinality(CallsOf(id, verb))

TheCall(id, verb) == calls[id][CHOOSE i \in CallsOf(id, verb) : TRUE]

IsPush(id) == h[id].req.name = "push-files"

IsFileOp(id) == h[id].req.name \in {"push-files", "create-or-update-file"}

\* the calls of a request that changed a branch of the remote
RefWrites(id) ==
  {i \in 1..Len(calls[id]) :
     /\ calls[id][i].verb \in {"git.createRef", "git.updateRef",
                               "repos.createOrUpdateFileContents"}
     /\ Ok(calls[id][i])}

\* C1: a request of a catalog tool whose bag lacks a required field issues
\* no remote call.
C1_MissingRequiredNoRemoteCall ==
  \A id \in Ids : MissingRequired(h[id].req) => calls[id] = << >>

\* C2: a request whose bag violates the tool's schema ends in an error of
\* kind InvalidParams, and no remote call was issued for it.
C2_SchemaViolationIsInvalidParams ==
  \A id \in Ids :
    Done(id) /\ ViolatesSchema(h[id].req) =>
      /\ h[id].resp.shape = "error"
      /\ h[id].resp.code = InvalidParams
      /\ calls[id] = << >>

\* C3: a request that names no tool of the catalog ends in MethodNotFound,
\* whatever its bag, with no deserialization, no validation and no call.
C3_UnknownToolMethodNotFound ==
  \A id \in Ids :
    Done(id) /\ h[id].req.name = UnknownTool =>
      /\ h[id].resp.shape = "error"
      /\ h[id].resp.code = MethodNotFound
      /\ ~h[id].jsonParsed
      /\ ~h[id].validated
      /\ calls[id] = << >>

\* C4: a push-files run that ended in an error created and moved no branch.
C4_FailedPushLeavesBranches ==
  \A id \in Ids : IsPush(id) /\ Failed(id) => RefWrites(id) = {}

UpdateAccepted(id) ==
  \E i \in CallsOf(id, "git.updateRef") : Ok(calls[id][i])

UpdateRejected(id) ==
  \E i \in CallsOf(id, "git.updateRef") : ~Ok(calls[id][i])

\* C5: of two push-files runs on one branch that read the same head at most
\* one has its ref-update accepted; a run whose update is rejected ends in
\* an error; the commit of every run that reported success is the head of
\* its branch or an ancestor of it; and no ref-update is forced.
C5_RefUpdateRace ==
  /\ \A a, b \in Ids :
       /\ a # b /\ IsPush(a) /\ IsPush(b)
       /\ h[a].req.branch = h[b].req.branch
       /\ h[a].latestCommitSha # 0
       /\ h[a].latestCommitSha = h[b].latestCommitSha
       => ~(UpdateAccepted(a) /\ UpdateAccepted(b))
  /\ \A id \in Ids : IsPush(id) /\ UpdateRejected(id) => Failed(id)
  /\ \A id \in Ids :
       IsPush(id) /\ Succeeded(id) =>
         IsAncestor(h[id].resp.body.sha, refs[h[id].req.branch])
  /\ \A id \in Ids : \A i \in CallsOf(id, "git.updateRef") : ~calls[id][i].force

\* two runs read the same head, one update was accepted, the other was
\* rejected by the remote itself (no failure was injected)
C5_Witness ==
  \E a, b \in Ids :
    /\ a # b /\ IsPush(a) /\ IsPush(b)
    /\ h[a].req.branch = h[b].req.branch
    /\ h[a].latestCommitSha # 0
    /\ h[a].latestCommitSha = h[b].latestCommitSha
    /\ UpdateAccepted(a) /\ UpdateRejected(b) /\ Failed(b)
    /\ faults = 0

\* a complete push-files run on a branch that its probe found
CompleteOnExisting(id) == IsPush(id) /\ Succeeded(id) /\ h[id].existed = "true"

\* the calls of the commit sequence, with the head C0 the run read and its
\* tree T0: commit-read of C0, tree-create on base T0 with one entry per
\* input file, commit-create on parent C0, ref-update of the branch to the
\* commit that commit-create returned
CommitSequence(id, lookups) ==
  LET C0 == h[id].latestCommitSha
      T0 == commits[C0].tree
  IN  /\ Count(id, "git.getRef") = lookups
      /\ \E i \in CallsOf(id, "git.getRef") :
           calls[id][i].ref = h[id].req.branch /\ calls[id][i].ret = C0
      /\ Count(id, "git.getCommit") = 1
      /\ TheCall(id, "git.getCommit").sha = C0
      /\ Count(id, "git.createTree") = 1
      /\ TheCall(id, "git.createTree").base = T0
      /\ TheCall(id, "git.createTree").paths = PathsOf(h[id].req.files)
      /\ Count(id, "git.createCommit") = 1
      /\ TheCall(id, "git.createCommit").parent = C0
      /\ Count(id, "git.updateRef") = 1
      /\ TheCall(id, "git.updateRef").ref = h[id].req.branch
      /\ TheCall(id, "git.updateRef").sha = TheCall(id, "git.createCommit").ret

\* C6 as stated: a complete push-files run on an existing branch issues
\* exactly one ref-lookup, one commit-read, one tree-create, one
\* commit-create and one ref-update.
C6_OneRefLookup ==
  \A id \in Ids : CompleteOnExisting(id) => CommitSequence(id, 1)

\* C6 amended: the run issues exactly two ref-lookups of the branch (the
\* existence probe and the head read), and exactly one commit-read, one
\* tree-create, one commit-create and one ref-update.
C6_TwoRefLookups ==
  \A id \in Ids : CompleteOnExisting(id) => CommitSequence(id, 2)

C6_Witness ==
  \E id \in Ids : CompleteOnExisting(id) /\ Len(h[id].req.files) = 2

\* C7: when the ref-update of a push-files run fails with a conflict, the
\* error that leaves the dispatcher is the remote failure as the adapter
\* classifies it (code by status, its message), and there is no result.
C7_ConflictVerbatim ==
  \A id \in Ids : \A i \in CallsOf(id, "git.updateRef") :
    Done(id) /\ calls[id][i].status \in {409, 422} =>
      /\ h[id].resp.shape = "error"
      /\ h[id].resp.code = handleApiError(RequestError(calls[id][i].status)).code
      /\ h[id].resp.msg = handleApiError(RequestError(calls[id][i].status)).msg

\* the calls of the branch ensure: the probe alone when the branch exists,
\* else the probe, the repository read, the source head and the create-ref
EnsureLength(id) == IF h[id].existed = "true" THEN 1 ELSE 4

EnsureReturned(id) == h[id].existed # "unset" /\ Len(calls[id]) > EnsureLength(id)

EnsureFailed(id) ==
  /\ Failed(id)
  /\ Len(calls[id]) <= EnsureLength(id)

\* C8: two runs in a row of a file-mutating tool with the same arguments, on
\* a branch absent at first, no remote failure and no other request: the
\* first ensure finds no branch and creates it, the second finds it and
\* issues no create-ref, and neither ensure ends in an error.
C8_EnsureIdempotent ==
  \A a, b \in Ids :
    /\ a < b /\ IsFileOp(a) /\ h[a].req = h[b].req
    /\ h[a].req.repo = ExistingRepo
    /\ ~h[a].overlap /\ ~h[b].overlap /\ faults = 0
    /\ h[a].existed = "false"
    /\ h[b].pc \notin {"unsent", "branchExists"}
    => /\ \E i \in CallsOf(a, "git.createRef") : Ok(calls[a][i])
       /\ ~EnsureFailed(a)
       /\ h[b].existed = "true"
       /\ Count(b, "git.createRef") = 0
       /\ ~EnsureFailed(b)

C8_Witness ==
  \E a, b \in Ids :
    /\ a < b /\ IsFileOp(a) /\ h[a].req = h[b].req
    /\ h[a].req.repo = ExistingRepo
    /\ ~h[a].overlap /\ ~h[b].overlap /\ faults = 0
    /\ h[a].existed = "false" /\ EnsureReturned(a)
    /\ h[b].existed = "true" /\ EnsureReturned(b)

\* a file-mutating run in the existing repository whose probe found no branch
ProbedAbsent(id) ==
  /\ IsFileOp(id) /\ h[id].req.repo = ExistingRepo
  /\ Len(calls[id]) >= 1 /\ calls[id][1].status = 404

\* the branch is created first, at the head of the default branch, and the
\* write or the commit sequence follows the create-ref
CreatedFirst(id) ==
  /\ Len(calls[id]) >= 2 => calls[id][2].verb = "repos.get"
  /\ Len(calls[id]) >= 3 =>
       calls[id][3].verb = "git.getRef" /\ calls[id][3].ref = DefaultBranch
  /\ Len(calls[id]) >= 4 =>
       /\ calls[id][4].verb = "git.createRef"
       /\ calls[id][4].ref = h[id].req.branch
       /\ calls[id][4].sha = calls[id][3].ret
  /\ Len(calls[id]) >= 5 =>
       /\ Ok(calls[id][4])
       /\ calls[id][5].verb \in {"git.getRef", "repos.createOrUpdateFileContents"}
       /\ calls[id][5].ref = h[id].req.branch

PushResponse(id) ==
  /\ h[id].resp.body.success = "true"
  /\ h[id].resp.body.branch = h[id].req.branch
  /\ h[id].resp.body.sha = TheCall(id, "git.createCommit").ret
  /\ h[id].resp.body.files = PathsOf(h[id].req.files)

C10_TreeOfNewCommit ==
  \A id \in Ids :
    IsPush(id) /\ Succeeded(id) =>
      LET c == h[id].resp.body.sha
          new == TreeOf(commits[c].tree)
          old == TreeOf(commits[commits[c].parent].tree)
          files == h[id].req.files
      IN  /\ \A i \in 1..Len(files) :
               new[files[i].path] = Utf8Encode(files[i].content)
          /\ \A p \in Paths :
               (\A i \in 1..Len(files) : files[i].path # p) => new[p] = old[p]

\* a successful run that replaced a file, added a file and kept a file
C10_Witness ==
  \E id \in Ids :
    /\ IsPush(id) /\ Succeeded(id)
    /\ LET c == h[id].resp.body.sha
           new == TreeOf(commits[c].tree)
           old == TreeOf(commits[commits[c].parent].tree)
       IN  /\ old["a.txt"] = <<111>> /\ new["a.txt"] = <<65>>
           /\ old["b.txt"] = NoFile /\ new["b.txt"] = <<195, 169>>
           /\ new["keep.txt"] = <<107>>

\* C11: in a successful push-files run the paths of the entries sent to
\* tree-create and the files of the result are the input paths in input
\* order, in whatever order the per-file lookups completed.
C11_PathsInInputOrder ==
  \A id \in Ids :
    IsPush(id) /\ Succeeded(id) =>
      /\ TheCall(id, "git.createTree").paths = PathsOf(h[id].req.files)
      /\ h[id].resp.body.files = PathsOf(h[id].req.files)

\* a successful run of two files whose second lookup completed first
C11_Witness ==
  \E id \in Ids :
    /\ IsPush(id) /\ Succeeded(id)
    /\ h[id].resolved = <<2, 1>>
    /\ h[id].resp.body.files = <<"a.txt", "b.txt">>

\* the remote call whose failure ended the request, if one did
LastCall(id) == calls[id][Len(calls[id])]

EndedByRemoteFailure(id) ==
  /\ Failed(id)
  /\ Len(calls[id]) > 0
  /\ LastCall(id).status \in FaultStatuses

\* C12: a request that a remote failure ended is answered with the error
\* kind of the failure's status: 401 Unauthorized, 403 Forbidden, 404
\* NotFound, 400 and 422 InvalidParams, any other status InternalError.
C12_StatusClassified ==
  \A id \in Ids :
    EndedByRemoteFailure(id) =>
      h[id].resp.code = StatusToErrorCode(LastCall(id).status)

\* C13: a request whose bag holds a field that the tool's schema does not
\* declare is rejected, and no remote call is issued for it.
C13_ExtraFieldRejected ==
  \A id \in Ids :
    IsBag(h[id].req) /\ h[id].req.extra =>
      /\ calls[id] = << >>
      /\ Done(id) => Failed(id)

\* the request supplies, for an enumerated field, a value outside the set
EnumOutside(r) ==
  /\ IsBag(r)
  /\ \E f \in InputSchema(r.name) :
       f.kind = "enum" /\ r.bag[f.name] \notin {"absent", "e"}

\* C14: a request that supplies a value outside the enumerated set of an
\* enumerated field is rejected, and no remote call is issued for it.
C14_EnumRejected ==
  \A id \in Ids :
    EnumOutside(h[id].req) =>
      /\ calls[id] = << >>
      /\ h[id].pc # "unsent" => Failed(id)

\* merge-pull-request with a merge_method outside merge, squash, rebase
C14_Witness ==
  \E id \in Ids :
    /\ h[id].req.name = "merge-pull-request"
    /\ EnumOutside(h[id].req)
    /\ h[id].req.bag["merge_method"] = "s"
    /\ Failed(id)

\* C15: the text bag of a catalog tool is deserialized before validation,
\* which then accepts a valid bag; text that is no JSON ends the request
\* with InvalidParams, no handler step and no remote call, and the server
\* keeps running.
C15_TextBagDeserialized ==
  /\ \A id \in Ids :
       h[id].req.name \in Tools /\ h[id].req.form = "text" =>
         /\ h[id].jsonParsed
         /\ Validates(h[id].req.name)
              /\ SchemaParse(h[id].req.name, "text", h[id].req.bag)
              => h[id].validated
  /\ \A id \in Ids :
       h[id].req.name \in Tools /\ h[id].req.form = "badtext" =>
         /\ Failed(id)
         /\ h[id].resp.code = InvalidParams
         /\ ~h[id].validated
         /\ h[id].k = 0
         /\ calls[id] = << >>
  /\ \A id \in Ids : h[id].badJson => proc.state = "running"

\* a request served with a result after a request whose text was no JSON
\* was answered with its error
C15_Witness == h[1].badJson /\ h[1].pc = "gone" /\ Succeeded(2)

\* C17: without the access token the server never runs: main exits with a
\* ConfigurationError, no request is dispatched and no remote call is made.
C17_NoTokenNoServer ==
  /\ ~proc.tokenSet =>
       /\ proc.state # "running"
       /\ \A id \in Ids : h[id].pc = "unsent" /\ calls[id] = << >>
  /\ proc.state = "exited" => ~proc.tokenSet /\ proc.error = ConfigurationError

C17_Witness == proc.state = "exited" /\ ~proc.tokenSet

\* a result that reports a failure: success false, or the notice that stands
\* for a refused or failed statistics call
ReportsFailure(body) ==
  \/ body.success = "false"
  \/ body.kind \in {"enterprise-only", "stats-unavailable"}

\* C16: a response is a result or an error; no result reports a failure, and
\* a request that a remote failure ended is answered with an error.
C16_TwoShapes ==
  \A id \in Ids :
    Done(id) =>
      /\ h[id].resp.shape \in {"result", "error"}
      /\ h[id].resp.shape = "result" =>
           /\ ~ReportsFailure(h[id].resp.body)
           /\ Len(calls[id]) > 0 => LastCall(id).status \notin FaultStatuses

IsWrite(id) == h[id].req.name = "create-or-update-file"

IsRead(id) == h[id].req.name = "get-file-contents"

\* request r read the file that request w had written
ReadBack(w, r) ==
  /\ IsWrite(w) /\ Succeeded(w)
  /\ IsRead(r) /\ Succeeded(r)
  /\ ~h[r].overlap
  /\ h[r].req.repo = h[w].req.repo /\ h[r].req.branch = h[w].req.branch
  /\ h[r].req.files[1].path = h[w].req.files[1].path

\* C18 as stated: for every text s, base64ToUtf8(utf8ToBase64(s)) = s, and a
\* file written with create-or-update-file reads back with
\* get-file-contents as the text written.
C18_RoundTripEveryText ==
  /\ \A w \in Ids :
       IsWrite(w) =>
         base64ToUtf8(utf8ToBase64(h[w].req.files[1].content)) = h[w].req.files[1].content
  /\ \A w, r \in Ids :
       ReadBack(w, r) => h[r].resp.body.content = h[w].req.files[1].content

\* C18 amended: the same for every text with no unpaired surrogate.
C18_RoundTripWellFormed ==
  /\ \A w \in Ids :
       IsWrite(w) /\ WellFormed(h[w].req.files[1].content) =>
         base64ToUtf8(utf8ToBase64(h[w].req.files[1].content)) = h[w].req.files[1].content
  /\ \A w, r \in Ids :
       ReadBack(w, r) /\ WellFormed(h[w].req.files[1].content) =>
         h[r].resp.body.content = h[w].req.files[1].content

\* a text of a control character and a character outside the basic plane
\* (a surrogate pair) was written and read back
C18_Witness ==
  \E w, r \in Ids :
    /\ ReadBack(w, r)
    /\ h[w].req.files[1].content \in {<<55357, 56832>>, <<9, 8364>>}
    /\ h[r].resp.body.content = h[w].req.files[1].content

IsDelete(id) == h[id].req.name = "delete-repository"

Confirmed(r) == IsBag(r) /\ r.bag["confirm"] = "T"

\* C19: delete-repository issues a remote call only when confirm is true;
\* with any other confirm, or none, the request ends in an error and no
\* remote call is made.
C19_DeleteNeedsConfirm ==
  \A id \in Ids :
    IsDelete(id) /\ ~Confirmed(h[id].req) =>
      /\ calls[id] = << >>
      /\ Failed(id)

\* one delete-repository request refused for confirm false
C19_Witness ==
  \E id \in Ids :
    /\ IsDelete(id) /\ IsBag(h[id].req)
    /\ h[id].req.bag["confirm"] = "F"
    /\ Failed(id) /\ calls[id] = << >>

Executing == {id \in Ids : InFlight(h[id])}

\* C20: at most one request is executing at any time: a request that
\* arrives while a handler awaits a remote call is not started until that
\* handler has produced its response.
C20_OneAtATime == Cardinality(Executing) <= 1

Returned(call) == call.status \in {200, 201}

IndexOf(id, verb) == CHOOSE i \in CallsOf(id, verb) : TRUE

\* the call verb, if issued, was issued once, after the one call before
\* that had returned successfully
After(id, verb, before) ==
  CallsOf(id, verb) # {} =>
    /\ Count(id, verb) = 1
    /\ Count(id, before) = 1
    /\ IndexOf(id, before) < IndexOf(id, verb)
    /\ Returned(TheCall(id, before))

\* the commit-read, if issued, follows a successful lookup of the branch
\* head and reads the commit that lookup returned
AfterHeadRead(id) ==
  CallsOf(id, "git.getCommit") # {} =>
    /\ Count(id, "git.getCommit") = 1
    /\ LET i == IndexOf(id, "git.getCommit") - 1
       IN  /\ i >= 1
           /\ calls[id][i].verb = "git.getRef"
           /\ calls[id][i].ref = h[id].req.branch
           /\ Returned(calls[id][i])
           /\ TheCall(id, "git.getCommit").sha = calls[id][i].ret

\* C22: in a push-files run the head read, the commit-read, the
\* tree-create, the commit-create and the ref-update are issued in that
\* order, each after the one before has returned successfully, and the
\* ref-update carries the hash that the commit-create returned.
C22_CommitSequenceOrdered ==
  \A id \in Ids :
    IsPush(id) =>
      /\ AfterHeadRead(id)
      /\ After(id, "git.createTree", "git.getCommit")
      /\ After(id, "git.createCommit", "git.createTree")
      /\ After(id, "git.updateRef", "git.createCommit")
      /\ CallsOf(id, "git.updateRef") # {} =>
           /\ TheCall(id, "git.updateRef").sha # 0
           /\ TheCall(id, "git.updateRef").sha = TheCall(id, "git.createCommit").ret

\* a run that created its branch and then issued the whole sequence
C22_Witness ==
  \E id \in Ids :
    /\ IsPush(id) /\ Succeeded(id) /\ h[id].existed = "false"
    /\ Len(h[id].req.files) = 2

\* the head read of a run: the ref-lookup right before its commit-read
HeadRead(id) == calls[id][IndexOf(id, "git.getCommit") - 1]

\* C23: the commit a push-files run creates has one parent, the head hash
\* the run read from the target branch; the tree-create is based on the tree
\* of that parent commit; the ref-update installs the commit that the
\* commit-create returned.
C23_CommitOnHeadRead ==
  \A id \in Ids :
    IsPush(id) =>
      /\ CallsOf(id, "git.createTree") # {} =>
           /\ HeadRead(id).verb = "git.getRef"
           /\ HeadRead(id).ret # 0
           /\ TheCall(id, "git.createTree").base = commits[HeadRead(id).ret].tree
      /\ CallsOf(id, "git.createCommit") # {} =>
           /\ TheCall(id, "git.createCommit").parent # 0
           /\ TheCall(id, "git.createCommit").parent = HeadRead(id).ret
           /\ TheCall(id, "git.createCommit").parent = h[id].latestCommitSha
           /\ Returned(TheCall(id, "git.createCommit")) =>
                LET new == commits[TheCall(id, "git.createCommit").ret]
                IN  /\ new.parent = HeadRead(id).ret
                    /\ new.tree = TheCall(id, "git.createTree").ret
      /\ CallsOf(id, "git.updateRef") # {} =>
           TheCall(id, "git.updateRef").sha = TheCall(id, "git.createCommit").ret

\* a run whose commit was installed on a branch that existed before
C23_Witness ==
  \E id \in Ids :
    /\ IsPush(id) /\ Succeeded(id) /\ h[id].existed = "true"
    /\ refs[h[id].req.branch] = TheCall(id, "git.createCommit").ret

\* the probe of a file-mutating run: its first remote call
Probed(id) == IsFileOp(id) /\ Len(calls[id]) >= 1

\* C25: a 404 of the branch-existence probe yields existed = false and no
\* error; a probe failure of any other class ends the run with the error of
\* that class, and no call of the branch creation is issued.
C25_ProbeFailureClasses ==
  \A id \in Ids :
    Probed(id) =>
      /\ calls[id][1].verb = "git.getRef" /\ calls[id][1].ref = h[id].req.branch
      /\ calls[id][1].status = 404 =>
           /\ h[id].existed = "false"
           /\ Len(calls[id]) = 1 => h[id].pc = "getDefaultBranch"
      /\ calls[id][1].status \notin {200, 201, 404} =>
           /\ Failed(id)
           /\ h[id].resp.code = StatusToErrorCode(calls[id][1].status)
           /\ h[id].existed = "unset"
           /\ Len(calls[id]) = 1

\* one run whose probe met a 404 and went on to the branch creation, and one
\* whose probe failed otherwise
C25_Witness ==
  \E a, b \in Ids :
    /\ Probed(a) /\ calls[a][1].status = 404 /\ Count(a, "repos.get") = 1
    /\ Probed(b) /\ calls[b][1].status \in {401, 403, 500} /\ Failed(b)

\* C27: a push-files run issues no remote content read for its input
\* files, so two complete runs that found their branch in the same state
\* issue the same number of remote calls, however many files each pushes.
C27_NoContentRead ==
  /\ \A id \in Ids : IsPush(id) => Count(id, "repos.getContent") = 0
  /\ \A a, b \in Ids :
       /\ IsPush(a) /\ IsPush(b) /\ Succeeded(a) /\ Succeeded(b)
       /\ h[a].existed = h[b].existed
       => Len(calls[a]) = Len(calls[b])

\* a file-mutating run against a repository that does not exist, whose
\* probe was answered 404
ProbedNoRepository(id) ==
  /\ IsFileOp(id) /\ h[id].req.repo # ExistingRepo
  /\ Len(calls[id]) >= 1 /\ calls[id][1].status = 404

\* C28: when the repository does not exist, the probe's 404 is taken for an
\* absent branch and the run enters the branch creation; the repository
\* read of the creation fails, the run ends with that error, and no
\* create-ref, tree-create, commit-create, ref-update or content write is
\* issued.
C28_NoRepositoryEndsInCreation ==
  \A id \in Ids :
    ProbedNoRepository(id) =>
      /\ h[id].existed = "false"
      /\ Len(calls[id]) <= 2
      /\ Len(calls[id]) = 1 => h[id].pc = "getDefaultBranch"
      /\ Len(calls[id]) = 2 =>
           /\ calls[id][2].verb = "repos.get"
           /\ ~Returned(calls[id][2])
           /\ Failed(id)
           /\ h[id].resp.code = StatusToErrorCode(calls[id][2].status)
      /\ \A v \in {"git.createRef", "git.createTree", "git.createCommit",
                   "git.updateRef", "repos.createOrUpdateFileContents"} :
           Count(id, v) = 0

\* both file-mutating tools ended this way on the repository's own 404
C28_Witness ==
  \E a, b \in Ids :
    /\ ProbedNoRepository(a) /\ IsPush(a) /\ Failed(a)
    /\ ProbedNoRepository(b) /\ ~IsPush(b) /\ Failed(b)
    /\ calls[a][2].status = 404 /\ calls[b][2].status = 404
    /\ h[a].resp.code = NotFound

CreateRefAccepted(id) ==
  \E i \in CallsOf(id, "git.createRef") : Returned(calls[id][i])

CreateRefRejected(id) ==
  \E i \in CallsOf(id, "git.createRef") : ~Returned(calls[id][i])

\* C29: of two file-mutating runs on the same branch whose probes both
\* reported the branch absent, at most one creates the reference; a run
\* whose create-ref is rejected ends with the classified error of that
\* call and issues no tree-create, commit-create, ref-update or content
\* write.
C29_OneCreateRefWins ==
  \A a, b \in Ids :
    /\ a # b /\ ProbedAbsent(a) /\ ProbedAbsent(b)
    /\ h[a].req.branch = h[b].req.branch
    => /\ ~(CreateRefAccepted(a) /\ CreateRefAccepted(b))
       /\ CreateRefRejected(a) =>
            /\ Failed(a)
            /\ LastCall(a).verb = "git.createRef"
            /\ h[a].resp.code = StatusToErrorCode(LastCall(a).status)
            /\ \A v \in {"git.createTree", "git.createCommit", "git.updateRef",
                         "repos.createOrUpdateFileContents"} : Count(a, v) = 0

\* both probes met the absent branch, one run created it and the other's
\* create-ref was rejected because the branch exists
C29_Witness ==
  \E a, b \in Ids :
    /\ a # b /\ ProbedAbsent(a) /\ ProbedAbsent(b) /\ faults = 0
    /\ h[a].req.branch = h[b].req.branch
    /\ IsPush(a) /\ ~IsPush(b)
    /\ CreateRefAccepted(a)
    /\ CreateRefRejected(b) /\ LastCall(b).status = 422
    /\ refs[h[b].req.branch] # 0

\* the i-th call of a request failed, and it is not a branch-exists probe
\* answered not-found (status 0 is a call that has not returned yet)
FailedCall(id, i) ==
  /\ calls[id][i].status \notin {0, 200, 201}
  /\ ~(i = 1 /\ calls[id][i].verb = "git.getRef" /\ calls[id][i].status = 404)

\* C26: a remote failure other than the not-found of the branch-exists
\* probe ends the request: the failed call is the last call the request
\* issued, and the request is answered with an error, never with a result.
C26_FailureIsTerminal ==
  \A id \in Ids :
    \A i \in 1..Len(calls[id]) :
      FailedCall(id, i) =>
        /\ \A j \in (i + 1)..Len(calls[id]) : calls[id][j].status = 0
        /\ Failed(id)

(***************************************************************************)
(* The stdio transport: one message per data event, parsed, handed to the  *)
(* server's onRequest without awaiting it, and answered on stdout when the *)
(* handler's promise settles.                                              *)
(***************************************************************************)
\* the methods the server registers a handler for; no handler is registered
\* under 'unknown'
Handlers == {"list_tools", "call_tool"}

Message(json, method, params) == [json |-> json, method |-> method, params |-> params]

\* what a client puts on stdin: text that is no JSON, a method without a
\* handler, the tool list, and tool calls
TransportMessages ==
  {Message(FALSE, "", NoRequest), Message(TRUE, "ping", NoRequest),
   Message(TRUE, "list_tools", NoRequest)}
  \cup
  {Message(TRUE, "call_tool", r) :
     r \in {Request("push-files", "object", ValidBag("push-files"), FALSE,
                    ExistingRepo, b, SampleFiles) : b \in Branches}
           \cup
           {Request("create-or-update-file", "object",
                    ValidBag("create-or-update-file"), FALSE, ExistingRepo,
                    "feature", <<InputFile("a.txt", <<65>>)>>)}}

\* the data handler up to the handler's first await: a JSON.parse failure
\* is logged and the message is dropped; a method without a handler rejects
\* with MethodNotFound
Dispatch(rec, m) ==
  IF ~m.json
  THEN [rec EXCEPT !.pc = "gone"]
  ELSE IF m.method \notin Handlers
  THEN Finish(rec, ErrorResponse(McpError(MethodNotFound, "Method not found")))
  ELSE IF m.method = "list_tools"
  THEN Finish(rec, ResultResponse([NoBody EXCEPT !.kind = "tools"]))
  ELSE Started(rec, m.params)

Data(id, m) ==
  /\ proc.state = "running"
  /\ h[id].pc = "unsent"
  /\ IF id = 1 THEN TRUE ELSE h[id - 1].pc # "unsent"
  /\ h' = [h EXCEPT ![id] = Dispatch(h[id], m)]
  /\ UNCHANGED <<calls, refs, commits, trees, faults, apiUrlSet, proc>>

\* mutant of ResponseId: responses numbered in the order they are written
ResponseIdByOrder(id, written) == written + 1

\* id: request.id, the request of the closure that the callback was made in
ResponseId(id, written) == id

\* the then or catch callback of a settled handler writes its response
Write(id) ==
  /\ h[id].pc = "done"
  /\ proc' = [proc EXCEPT !.stdout =
                Append(@, [id |-> ResponseId(id, Len(@)), response |-> h[id].resp])]
  /\ h' = [h EXCEPT ![id].pc = "gone"]
  /\ UNCHANGED <<calls, refs, commits, trees, faults, apiUrlSet>>

\* the remote fails only where its state says so
InitTransport ==
  /\ h = [id \in Ids |-> Idle]
  /\ calls = [id \in Ids |-> << >>]
  /\ refs = [b \in Branches |-> IF b = DefaultBranch THEN 1 ELSE 0]
  /\ commits = <<[tree |-> 1, parent |-> 0]>>
  /\ trees = <<[p \in Paths |-> IF p = "a.txt" THEN <<111>> ELSE NoFile]>>
  /\ faults = MaxFaults
  /\ apiUrlSet = TRUE
  /\ proc = Process("running", TRUE, NoError)

NextTransport ==
  \E id \in Ids :
    \/ \E m \in TransportMessages : Data(id, m)
    \/ FileSteps(id)
    \/ Write(id)

SpecTransport == InitTransport /\ [][NextTransport]_vars

\* every remote call returns, and the event loop runs the callbacks of
\* settled promises
SpecTransportFair ==
  /\ SpecTransport
  /\ \A id \in Ids : WF_vars(FileSteps(id)) /\ WF_vars(Write(id))

Received(id) == h[id].pc # "unsent"

Responses(id) == {k \in 1..Len(proc.stdout) : proc.stdout[k].id = id}

\* C21: every inbound message, a malformed one included, is answered:
\* once the message is received, a response with its id is written.
C21_EveryMessageAnswered ==
  \A id \in Ids : Received(id) ~> (Responses(id) # {})

\* C30: each response on stdout carries the id of the request whose
\* handler produced it (the response is that handler's result or error,
\* and the handler has settled), and no id is in two responses.
C30_ResponseCarriesRequestId ==
  \A k \in 1..Len(proc.stdout) :
    LET e == proc.stdout[k]
    IN  /\ e.id \in Ids
        /\ h[e.id].pc = "gone"
        /\ e.response = h[e.id].resp
        /\ e.response.shape # "none"
        /\ Responses(e.id) = {k}

\* two requests were in flight together and the second was answered first,
\* one with a result and one with an error
C30_Witness ==
  /\ Len(proc.stdout) = 2
  /\ proc.stdout[1].id = 2 /\ proc.stdout[2].id = 1
  /\ calls[1] # << >> /\ calls[2] # << >>
  /\ proc.stdout[1].response.shape # proc.stdout[2].response.shape

(***************************************************************************)
(* Other actors on the remote: anyone with access may delete a branch that *)
(* is not the default branch, or create it at the head of the default      *)
(* branch, between any two calls of a run.                                 *)
(***************************************************************************)
ActorDeletesBranch(b) ==
  /\ b # DefaultBranch
  /\ refs[b] # 0
  /\ refs' = [refs EXCEPT ![b] = 0]
  /\ UNCHANGED <<h, calls, commits, trees, faults, apiUrlSet, proc>>

ActorCreatesBranch(b) ==
  /\ refs[b] = 0
  /\ refs' = [refs EXCEPT ![b] = refs[DefaultBranch]]
  /\ UNCHANGED <<h, calls, commits, trees, faults, apiUrlSet, proc>>

\* pipelined file-mutating requests and the other actors; the remote fails
\* only where its state says so
NextActors ==
  \/ \E id \in Ids :
       \/ \E r \in FileRequests : Receive(id, r)
       \/ FileSteps(id)
  \/ \E b \in Branches : ActorDeletesBranch(b)
  \/ \E b \in Branches : ActorCreatesBranch(b)

SpecActors == InitTransport /\ [][NextActors]_vars

\* C24: whenever a push-files run is at its tree-create, commit-create or
\* ref-update call, its target branch exists on the remote, also when
\* other actors create and delete branches meanwhile.
C24_BranchExistsAtWrites ==
  \A id \in Ids :
    IsPush(id) /\ h[id].pc \in {"createTree", "createCommit", "updateRef"}
      => refs[h[id].req.branch] # 0

\* the request issues its next remote call in this step, one of the verbs
IssuesOneOf(id, verbs) ==
  /\ Len(calls'[id]) = Len(calls[id]) + 1
  /\ calls'[id][Len(calls'[id])].verb \in verbs

\* C24 amended: a push-files run issues its tree-create, commit-create and
\* ref-update only after its head read found the target branch, but it
\* does not look again: when another actor has deleted the branch since,
\* the calls are issued all the same, none of them brings the branch
\* back, and the ref-update is rejected and ends the run with an error.
C24_BranchExistedAtHeadRead ==
  [][\A id \in Ids :
       IsPush(id)
       /\ IssuesOneOf(id, {"git.createTree", "git.createCommit", "git.updateRef"})
       => /\ CallsOf(id, "git.getCommit") # {}
          /\ HeadRead(id).verb = "git.getRef"
          /\ HeadRead(id).ref = h[id].req.branch
          /\ Returned(HeadRead(id))
          /\ refs[h[id].req.branch] = 0 =>
               /\ refs' = refs
               /\ IssuesOneOf(id, {"git.updateRef"}) =>
                    h'[id].pc = "done" /\ h'[id].resp.shape = "error"]_vars

\* a run, alone, whose ref-update was rejected because the branch it had
\* found and read was gone
C24_Witness ==
  \E id \in Ids :
    /\ IsPush(id) /\ Failed(id)
    /\ \A o \in Ids \ {id} : h[o].pc = "unsent"
    /\ LastCall(id).verb = "git.updateRef" /\ LastCall(id).status = 422
    /\ refs[h[id].req.branch] = 0

====
